---- MODULE Spec2Model ----
(***************************************************************************)
(* A model of the layout reconstruction engine (src/src/layout_engine.py). *)
(*                                                                         *)
(* Coordinates are integers (page points); a bbox is <<x0, y0, x1, y1>>,   *)
(* so bbox[1] = x0, bbox[2] = y0, bbox[3] = x1, bbox[4] = y1 (the source   *)
(* indexes from 0).  Quotients the code computes in floating point         *)
(* (centres, means, ratios, the 15% / 85% zones) are kept exact: either as *)
(* cross-multiplied integer comparisons or as reduced fractions <<n, d>>.  *)
(*                                                                         *)
(* The specifications share the module's variables; under each, the        *)
(* components of the others stay idle:                                     *)
(*   Spec         reconstruct_layout, page by page                         *)
(*   SpecSizes    reconstruct_layout with page_sizes shorter or longer     *)
(*                than page_count and items on pages outside the document  *)
(*   SpecEngine   a sequence of calls on one engine                        *)
(*   SpecSort     the reading-order sort, applied once and then again      *)
(*   SpecCluster  _cluster_coordinates, applied once and then again        *)
(*   SpecMerge    merge_overlapping_elements                               *)
(*   SpecOverlap  _elements_overlap                                        *)
(*   SpecDetect   PDFAnalyzer._detect_headers_footers                      *)
(*   SpecOcr      OCRProcessor.process_image                               *)
(*   SpecReadingOrder  LayoutEngine.get_reading_order on one page          *)
(*   SpecBatch    OCRProcessor.batch_process_images (src/src/ocr_processor.py) *)
(*   SpecMain     the loop of main over its files (src/main.py)            *)
(*   SpecDocx     DocxBuilder.create_document (src/src/docx_builder.py)    *)
(***************************************************************************)
EXTENDS Integers, Sequences, FiniteSets, TLC

VARIABLES
    \* reconstruct_layout
    font_mapping,     \* self.font_mapping of the engine
    text_blocks,      \* sequence of TextBlock: [bbox, page_num, text, font_name, font_size]
    images,           \* sequence of ImageBlock: [bbox, page_num]
    ocr_results,      \* sequence of OCRResult: [bbox, page_num]
    page_count,       \* pdf_document.page_count
    page_sizes,       \* pdf_document.page_sizes
    pages,            \* the local list `pages` of reconstruct_layout
    document_layout,  \* the DocumentLayout returned (<<>> before the return)
    lpc,              \* "loop" while pages are produced, "done" after the return
    \* _cluster_coordinates
    coordinates,      \* the input sequence
    tolerance,        \* the tolerance
    clusters,         \* the result of the first application
    reclustered,      \* the result of applying it to `clusters`
    cpc,              \* "input", "once", "twice"
    \* merge_overlapping_elements
    m_elements,       \* the input list
    merged,           \* the returned list
    skipped,          \* skip_indices when the function returns
    mpc,              \* "input", "merged"
    \* _elements_overlap
    elem1, elem2,     \* the two elements
    threshold,        \* the threshold, a fraction <<n, d>>
    overlap,          \* the returned boolean
    opc,              \* "input", "returned"
    \* the reading-order sort of _reconstruct_page_layout
    s_elements,       \* the list before the sort
    sorted_once,      \* the list after the sort
    sorted_twice,     \* the sorted list, sorted again
    spc,              \* "input", "once", "twice"
    \* PDFAnalyzer._detect_headers_footers
    d_text_blocks,    \* the text blocks of one page
    d_page_height,    \* the page height
    d_headers,        \* the returned header list
    d_footers,        \* the returned footer list
    dpc,              \* "input", "returned"
    \* OCRProcessor.process_image
    image_block,           \* the ImageBlock: [bbox, page_num]
    ocr_data,              \* what the steps before the word loop produce
    confidence_threshold,  \* self.confidence_threshold
    ocr_result,            \* the returned value: a sequence of zero (None) or one OCRResult
    ocrpc,                 \* "input", "returned", "raised"
    \* a sequence of calls on one engine
    calls,            \* number of calls begun on the engine
    reading_order,    \* the list returned by the last get_reading_order
    \* LayoutEngine.get_reading_order on one page
    r_page_layout,    \* the PageLayout passed
    ordered,          \* the returned list
    rpc,              \* "input", "returned"
    \* OCRProcessor.batch_process_images
    image_blocks,     \* the input list: [bbox, page_num, data] (data as ocr_data)
    processed,        \* the indices process_image was called with, in call order
    results,          \* the local list `results`
    bpc,              \* "loop", "returned"
    \* main.py: the loop of main over the valid files
    valid_files,      \* per file, what happens in convert_pdf_to_docx
    returned,         \* the values convert_pdf_to_docx returned, in call order
    successful,       \* results['successful']
    failed,           \* results['failed']
    failed_files,     \* results['failed_files'], as indices into valid_files
    exit_code,        \* the exit status of main
    mainpc,           \* "loop", "exited"
    \* DocxBuilder.create_document
    layout_data,      \* the pages of the DocumentLayout: [headers, elements, footers]
    body,             \* the block items of the document body
    header_runs,      \* the runs of the section's header paragraph
    footer_runs,      \* the runs of the section's footer paragraph
    api_calls,        \* the calls made on the document, in order
    created,          \* the returned value, as a sequence (<<>> before the return)
    page_idx,         \* the number of pages processed
    xpc               \* "pages", "returned"

layoutVars  == <<font_mapping, text_blocks, images, ocr_results, page_count, page_sizes,
                 pages, document_layout, lpc>>
clusterVars == <<coordinates, tolerance, clusters, reclustered, cpc>>
mergeVars   == <<m_elements, merged, skipped, mpc>>
overlapVars == <<elem1, elem2, threshold, overlap, opc>>
sortVars    == <<s_elements, sorted_once, sorted_twice, spc>>
detectVars  == <<d_text_blocks, d_page_height, d_headers, d_footers, dpc>>
ocrVars     == <<image_block, ocr_data, confidence_threshold, ocr_result, ocrpc>>
engineVars  == <<calls, reading_order>>
readVars    == <<r_page_layout, ordered, rpc>>
batchVars   == <<image_blocks, processed, results, bpc>>
mainVars    == <<valid_files, returned, successful, failed, failed_files, exit_code,
                 mainpc>>
docxVars    == <<layout_data, body, header_runs, footer_runs, api_calls, created,
                 page_idx, xpc>>
\* the components of the layout engine, the analyzer and process_image
coreVars    == <<layoutVars, clusterVars, mergeVars, overlapVars, sortVars, detectVars,
                 ocrVars, engineVars>>
\* the components around them
pipelineVars == <<readVars, batchVars, mainVars, docxVars>>
vars == <<coreVars, pipelineVars>>

----------------------------------------------------------------------------
(* Bounds of the model *)

\* the total number of text blocks, images and OCR results of a document
MaxItems == 2
\* the largest page_count
MaxPages == 2
\* the largest number of coordinates handed to _cluster_coordinates
MaxCoords == 4
\* the largest coordinate handed to _cluster_coordinates
MaxCoord == 4
\* the largest tolerance
MaxTol == 2
\* the largest number of elements handed to merge_overlapping_elements
MaxElems == 3
\* the largest coordinate of the two boxes handed to _elements_overlap
MaxGrid == 2
\* the largest number of elements of a list handed to the reading-order sort
MaxSort == 3
\* the largest number of calls made on one engine
MaxCalls == 4
\* the largest number of text blocks handed to _detect_headers_footers
MaxBlocks == 3
\* the largest number of words Tesseract recognizes in an image
MaxWords == 3
\* the largest number of body elements of the page handed to get_reading_order
MaxOrder == 3
\* the largest number of image blocks handed to batch_process_images
MaxImages == 3
\* the largest number of valid files main is started with
MaxFiles == 3
\* the largest number of pages of the layout handed to create_document
MaxDocPages == 2

----------------------------------------------------------------------------
(* Helpers *)

Max2(a, b) == IF a >= b THEN a ELSE b
Min2(a, b) == IF a <= b THEN a ELSE b

SetMin(S) == CHOOSE x \in S : \A y \in S : x <= y
SetMax(S) == CHOOSE x \in S : \A y \in S : x >= y

Range(s) == {s[i] : i \in 1..Len(s)}

----------------------------------------------------------------------------
(* Data model *)

LayoutElement(type, content, bbox, pn, z) ==
    [element_type |-> type, content |-> content, bbox |-> bbox,
     page_num |-> pn, z_order |-> z]

\* a page record numbered from 1
PageLayoutOneBased(pn, size, elements, columns, margins, headers, footers) ==
    [page_num |-> pn + 1, page_size |-> size, elements |-> elements, columns |-> columns,
     margins |-> margins, headers |-> headers, footers |-> footers]

PageLayout(pn, size, elements, columns, margins, headers, footers) ==
    [page_num |-> pn, page_size |-> size, elements |-> elements,
     columns |-> columns, margins |-> margins,
     headers |-> headers, footers |-> footers]

----------------------------------------------------------------------------
(* Fractions <<n, d>>, d > 0, in lowest terms: the exact values of the     *)
(* floats the code computes                                                *)

Abs(x) == IF x < 0 THEN -x ELSE x

RECURSIVE Gcd(_, _)
Gcd(a, b) == IF b = 0 THEN a ELSE Gcd(b, a % b)

Frac(n, d) ==
    LET g == Gcd(Abs(n), d) IN <<n \div g, d \div g>>

FracOfInt(x) == <<x, 1>>
FracSub(a, b) == Frac(a[1] * b[2] - b[1] * a[2], a[2] * b[2])
FracAdd(a, b) == Frac(a[1] * b[2] + b[1] * a[2], a[2] * b[2])
FracLE(a, b) == a[1] * b[2] <= b[1] * a[2]
FracLT(a, b) == a[1] * b[2] < b[1] * a[2]

RECURSIVE FracSum(_)
FracSum(s) == IF s = <<>> THEN <<0, 1>> ELSE FracAdd(s[1], FracSum(Tail(s)))

\* mutant: the midpoint of the first and the last member
Midpoint(s) == LET t == FracAdd(s[1], s[Len(s)]) IN Frac(t[1], t[2] * 2)

\* sum(current_cluster) / len(current_cluster)
Mean(s) == LET t == FracSum(s) IN Frac(t[1], t[2] * Len(s))

----------------------------------------------------------------------------
(* Coordinate clusterer *)

\* sorted(set(coordinates))
RECURSIVE SortedSetOf(_)
SortedSetOf(S) ==
    IF S = {} THEN <<>>
    ELSE LET m == CHOOSE x \in S : \A y \in S : FracLE(x, y)
         IN  <<m>> \o SortedSetOf(S \ {m})

\* mutant: the comparison is against the cluster's first value
SameClusterFirst(current_cluster, coord, tol) ==
    FracLE(FracSub(coord, current_cluster[1]), tol)

\* coord - current_cluster[-1] <= tolerance
SameCluster(current_cluster, coord, tol) ==
    FracLE(FracSub(coord, current_cluster[Len(current_cluster)]), tol)

\* the loop of lines 199-204, from sorted_coords[k] on, and line 206
RECURSIVE ClusterLoop(_, _, _, _, _)
ClusterLoop(sorted_coords, k, current_cluster, out, tol) ==
    IF k > Len(sorted_coords) THEN Append(out, Mean(current_cluster))
    ELSE IF SameCluster(current_cluster, sorted_coords[k], tol)
         THEN ClusterLoop(sorted_coords, k + 1,
                          Append(current_cluster, sorted_coords[k]), out, tol)
         ELSE ClusterLoop(sorted_coords, k + 1, <<sorted_coords[k]>>,
                          Append(out, Mean(current_cluster)), tol)

_cluster_coordinates(coords, tol) ==
    IF coords = <<>> THEN <<>>
    ELSE LET sorted_coords == SortedSetOf(Range(coords))
         IN  ClusterLoop(sorted_coords, 2, <<sorted_coords[1]>>, <<>>, tol)

----------------------------------------------------------------------------
(* Element merger *)

\* mutant: >= in place of >
RatioReaches(intersection_area, m, thr) ==
    IF m > 0 THEN intersection_area * thr[2] >= thr[1] * m
    ELSE intersection_area * thr[2] <= thr[1] * m

\* intersection_area / m > threshold, the threshold a fraction <<n, d>>
RatioExceeds(intersection_area, m, thr) ==
    IF m > 0 THEN intersection_area * thr[2] > thr[1] * m
    ELSE intersection_area * thr[2] < thr[1] * m

\* the function without the early return of lines 372-373
_elements_overlap_unguarded(e1, e2, thr) ==
    LET box1 == e1.bbox
        box2 == e2.bbox
        x_overlap == Max2(0, Min2(box1[3], box2[3]) - Max2(box1[1], box2[1]))
        y_overlap == Max2(0, Min2(box1[4], box2[4]) - Max2(box1[2], box2[2]))
        intersection_area == x_overlap * y_overlap
        area1 == (box1[3] - box1[1]) * (box1[4] - box1[2])
        area2 == (box2[3] - box2[1]) * (box2[4] - box2[2])
    IN  IF Min2(area1, area2) = 0
        THEN [raised |-> TRUE, value |-> FALSE]
        ELSE [raised |-> FALSE,
              value |-> RatioExceeds(intersection_area, Min2(area1, area2), thr)]

\* [raised, value]: the division of line 382 raises when min(area1, area2)
\* is 0; otherwise `value` is returned
_elements_overlap(e1, e2, thr) ==
    LET box1 == e1.bbox
        box2 == e2.bbox
        x_overlap == Max2(0, Min2(box1[3], box2[3]) - Max2(box1[1], box2[1]))
        y_overlap == Max2(0, Min2(box1[4], box2[4]) - Max2(box1[2], box2[2]))
        intersection_area == x_overlap * y_overlap
        area1 == (box1[3] - box1[1]) * (box1[4] - box1[2])
        area2 == (box2[3] - box2[1]) * (box2[4] - box2[2])
    IN  IF x_overlap = 0 \/ y_overlap = 0
        THEN [raised |-> FALSE, value |-> FALSE]
        ELSE IF Min2(area1, area2) = 0
        THEN [raised |-> TRUE, value |-> FALSE]
        ELSE [raised |-> FALSE,
              value |-> RatioExceeds(intersection_area, Min2(area1, area2), thr)]

\* threshold=0.7 at line 351
MergeThreshold == <<7, 10>>

\* mutant: the outer element is always kept
KeptFirst(e1, e2) == e1

\* lines 353-356: the element kept when elem1 and elem2 overlap
KeptOfPair(e1, e2) ==
    IF e1.element_type = "text" \/ e2.element_type = "image" THEN e1 ELSE e2

\* the inner loop of lines 346-357 from index j on; st = [merged_elem,
\* skip_indices, raised]
RECURSIVE InnerLoop(_, _, _, _)
InnerLoop(elements, i, j, st) ==
    IF j > Len(elements) \/ st.raised THEN st
    ELSE IF j \in st.skip_indices THEN InnerLoop(elements, i, j + 1, st)
    ELSE LET r == _elements_overlap(elements[i], elements[j], MergeThreshold)
         IN  IF r.raised THEN [st EXCEPT !.raised = TRUE]
             ELSE IF r.value
             THEN InnerLoop(elements, i, j + 1,
                    [st EXCEPT !.merged_elem = KeptOfPair(elements[i], elements[j]),
                               !.skip_indices = @ \cup {j}])
             ELSE InnerLoop(elements, i, j + 1, st)

\* mutant: the outer loop does not pass over the discarded indices
RECURSIVE OuterLoopNoSkip(_, _, _)
OuterLoopNoSkip(elements, i, st) ==
    IF i > Len(elements) \/ st.raised THEN st
    ELSE LET inner == InnerLoop(elements, i, i + 1,
                        [merged_elem |-> elements[i],
                         skip_indices |-> st.skip_indices, raised |-> FALSE])
         IN  IF inner.raised THEN [st EXCEPT !.raised = TRUE]
             ELSE OuterLoopNoSkip(elements, i + 1,
                    [merged |-> Append(st.merged, inner.merged_elem),
                     skip_indices |-> inner.skip_indices, raised |-> FALSE])

\* the outer loop of lines 340-359 from index i on; st = [merged,
\* skip_indices, raised]
RECURSIVE OuterLoop(_, _, _)
OuterLoop(elements, i, st) ==
    IF i > Len(elements) \/ st.raised THEN st
    ELSE IF i \in st.skip_indices THEN OuterLoop(elements, i + 1, st)
    ELSE LET inner == InnerLoop(elements, i, i + 1,
                        [merged_elem |-> elements[i],
                         skip_indices |-> st.skip_indices, raised |-> FALSE])
         IN  IF inner.raised THEN [st EXCEPT !.raised = TRUE]
             ELSE OuterLoop(elements, i + 1,
                    [merged |-> Append(st.merged, inner.merged_elem),
                     skip_indices |-> inner.skip_indices, raised |-> FALSE])

\* [merged, skip_indices, raised]: `merged` is the list returned
merge_overlapping_elements(elements) ==
    IF Len(elements) <= 1
    THEN [merged |-> elements, skip_indices |-> {}, raised |-> FALSE]
    ELSE OuterLoop(elements, 1, [merged |-> <<>>, skip_indices |-> {}, raised |-> FALSE])

----------------------------------------------------------------------------
(* Margin calculator *)

DefaultMargin == 72

\* mutant: no clamping at 0
_calculate_margins_unclamped(elements, page_width, page_height) ==
    IF elements = <<>>
    THEN [top |-> DefaultMargin, bottom |-> DefaultMargin,
          left |-> DefaultMargin, right |-> DefaultMargin]
    ELSE [top    |-> SetMin({e.bbox[2] : e \in Range(elements)}),
          bottom |-> page_height - SetMax({e.bbox[4] : e \in Range(elements)}),
          left   |-> SetMin({e.bbox[1] : e \in Range(elements)}),
          right  |-> page_width - SetMax({e.bbox[3] : e \in Range(elements)})]

\* mutant: the bottom margin is measured from the lowest top edge
_calculate_margins_top_edge(elements, page_width, page_height) ==
    IF elements = <<>>
    THEN [top |-> DefaultMargin, bottom |-> DefaultMargin,
          left |-> DefaultMargin, right |-> DefaultMargin]
    ELSE [top    |-> Max2(0, SetMin({e.bbox[2] : e \in Range(elements)})),
          bottom |-> Max2(0, page_height - SetMax({e.bbox[2] : e \in Range(elements)})),
          left   |-> Max2(0, SetMin({e.bbox[1] : e \in Range(elements)})),
          right  |-> Max2(0, page_width - SetMax({e.bbox[3] : e \in Range(elements)}))]

_calculate_margins(elements, page_width, page_height) ==
    IF elements = <<>>
    THEN [top |-> DefaultMargin, bottom |-> DefaultMargin,
          left |-> DefaultMargin, right |-> DefaultMargin]
    ELSE LET min_x == SetMin({e.bbox[1] : e \in Range(elements)})
             max_x == SetMax({e.bbox[3] : e \in Range(elements)})
             min_y == SetMin({e.bbox[2] : e \in Range(elements)})
             max_y == SetMax({e.bbox[4] : e \in Range(elements)})
         IN  [top    |-> Max2(0, min_y),
              bottom |-> Max2(0, page_height - max_y),
              left   |-> Max2(0, min_x),
              right  |-> Max2(0, page_width - max_x)]

----------------------------------------------------------------------------
(* Column detector.  The code also clusters the left and right edges       *)
(* (lines 174-175) and never reads the result.                             *)

\* mutant: x_end is the largest left edge
_detect_columns_left(page_text_blocks, page_width) ==
    IF page_text_blocks = <<>>
    THEN <<[x_start |-> 0, x_end |-> page_width, width |-> page_width]>>
    ELSE LET min_x == SetMin({tb.bbox[1] : tb \in Range(page_text_blocks)})
             max_x == SetMax({tb.bbox[1] : tb \in Range(page_text_blocks)})
         IN  <<[x_start |-> min_x, x_end |-> max_x, width |-> max_x - min_x]>>

_detect_columns(page_text_blocks, page_width) ==
    IF page_text_blocks = <<>>
    THEN <<[x_start |-> 0, x_end |-> page_width, width |-> page_width]>>
    ELSE LET min_x == SetMin({tb.bbox[1] : tb \in Range(page_text_blocks)})
             max_x == SetMax({tb.bbox[3] : tb \in Range(page_text_blocks)})
         IN  <<[x_start |-> min_x, x_end |-> max_x, width |-> max_x - min_x]>>

----------------------------------------------------------------------------
(* Header / footer separator *)

\* page_height * 0.15 and page_height * 0.85, in percent
HeaderPercent == 15
FooterPercent == 85

\* mutant: <= in place of <
AtOrBelowHeaderThreshold(element, page_height) ==
    100 * (element.bbox[2] + element.bbox[4]) <= 2 * HeaderPercent * page_height

\* y_center < header_threshold, i.e. (y0 + y1) / 2 < page_height * 0.15
BelowHeaderThreshold(element, page_height) ==
    100 * (element.bbox[2] + element.bbox[4]) < 2 * HeaderPercent * page_height

\* y_center > footer_threshold, i.e. (y0 + y1) / 2 > page_height * 0.85
AboveFooterThreshold(element, page_height) ==
    100 * (element.bbox[2] + element.bbox[4]) > 2 * FooterPercent * page_height

\* the branch of the if / elif / else taken for one element
Zone(element, page_height) ==
    IF BelowHeaderThreshold(element, page_height) THEN "header"
    ELSE IF AboveFooterThreshold(element, page_height) THEN "footer"
    ELSE "main"

\* mutant: each header is put in front of the headers found before it
_separate_headers_footers_prepending(elements, page_height) ==
    LET h == SelectSeq(elements, LAMBDA e : Zone(e, page_height) = "header")
    IN  [headers |-> [k \in 1..Len(h) |-> h[Len(h) + 1 - k]],
         footers |-> SelectSeq(elements, LAMBDA e : Zone(e, page_height) = "footer"),
         main    |-> SelectSeq(elements, LAMBDA e : Zone(e, page_height) = "main")]

\* mutant: the input list is left as it is
_separate_headers_footers_no_update(elements, page_height) ==
    [headers |-> SelectSeq(elements, LAMBDA e : Zone(e, page_height) = "header"),
     footers |-> SelectSeq(elements, LAMBDA e : Zone(e, page_height) = "footer"),
     main    |-> elements]

\* the three lists the loop fills; `main` is what elements[:] is set to
_separate_headers_footers(elements, page_height) ==
    [headers |-> SelectSeq(elements, LAMBDA e : Zone(e, page_height) = "header"),
     footers |-> SelectSeq(elements, LAMBDA e : Zone(e, page_height) = "footer"),
     main    |-> SelectSeq(elements, LAMBDA e : Zone(e, page_height) = "main")]

----------------------------------------------------------------------------
(* Global style analyzer.  A dict is a sequence of <<key, value>> pairs in  *)
(* insertion order, the order in which dict.items() yields them.           *)

\* d[key] += n on a defaultdict(int)
AddTo(d, key, n) ==
    IF \E k \in 1..Len(d) : d[k][1] = key
    THEN [k \in 1..Len(d) |-> IF d[k][1] = key THEN <<key, d[k][2] + n>> ELSE d[k]]
    ELSE Append(d, <<key, n>>)

\* max(d.items(), key=lambda x: x[1])[0]: the first item with the largest value
FirstMaxKey(d) ==
    LET k == CHOOSE i \in 1..Len(d) :
                 /\ \A j \in 1..Len(d) : d[j][2] <= d[i][2]
                 /\ \A j \in 1..(i - 1) : d[j][2] < d[i][2]
    IN  d[k][1]

\* the loop counting one per text block instead of its characters
RECURSIVE UsageLoopByBlocks(_, _, _, _)
UsageLoopByBlocks(tbs, i, font_usage, font_sizes) ==
    IF i > Len(tbs) THEN [font_usage |-> font_usage, font_sizes |-> font_sizes]
    ELSE UsageLoopByBlocks(tbs, i + 1,
                           AddTo(font_usage, tbs[i].font_name, 1),
                           AddTo(font_sizes, tbs[i].font_size, 1))

\* the loop of lines 271-273 from text block i on
RECURSIVE UsageLoop(_, _, _, _)
UsageLoop(tbs, i, font_usage, font_sizes) ==
    IF i > Len(tbs) THEN [font_usage |-> font_usage, font_sizes |-> font_sizes]
    ELSE UsageLoop(tbs, i + 1,
                   AddTo(font_usage, tbs[i].font_name, Len(tbs[i].text)),
                   AddTo(font_sizes, tbs[i].font_size, Len(tbs[i].text)))

\* the styles of the text blocks whose page number is not negative
_extract_global_styles_on_pages(tbs) ==
    LET on == SelectSeq(tbs, LAMBDA tb : tb.page_num >= 0)
        u  == UsageLoop(on, 1, <<>>, <<>>)
    IN  IF on = <<>> THEN <<>>
        ELSE [default_font |-> FirstMaxKey(u.font_usage),
              default_font_size |-> FirstMaxKey(u.font_sizes),
              font_usage |-> u.font_usage,
              size_usage |-> u.font_sizes]

\* the empty dict is the empty record <<>>
_extract_global_styles(tbs) ==
    IF tbs = <<>> THEN <<>>
    ELSE LET u == UsageLoop(tbs, 1, <<>>, <<>>)
         IN  [default_font |-> FirstMaxKey(u.font_usage),
              default_font_size |-> FirstMaxKey(u.font_sizes),
              font_usage |-> u.font_usage,
              size_usage |-> u.font_sizes]

_create_font_mapping ==
    [ Arial |-> "Arial", ArialMT |-> "Arial" ] @@
    ( "Arial-Bold" :> "Arial" @@ "Arial-Italic" :> "Arial" @@
      "Arial-BoldItalic" :> "Arial" @@ "Helvetica" :> "Arial" @@
      "Helvetica-Bold" :> "Arial" @@ "Times-Roman" :> "Times New Roman" @@
      "Times-Bold" :> "Times New Roman" @@ "Times-Italic" :> "Times New Roman" @@
      "Times-BoldItalic" :> "Times New Roman" @@
      "TimesNewRomanPSMT" :> "Times New Roman" @@ "Courier" :> "Courier New" @@
      "Courier-Bold" :> "Courier New" @@ "Courier-Oblique" :> "Courier New" @@
      "Symbol" :> "Symbol" @@ "ZapfDingbats" :> "Wingdings" )

----------------------------------------------------------------------------
(* Reading-order sort: list.sort is stable, key (bbox[1], bbox[0]) *)

\* a strict comparison of the keys
KeyLT(a, b) ==
    \/ a.bbox[2] < b.bbox[2]
    \/ a.bbox[2] = b.bbox[2] /\ a.bbox[1] < b.bbox[1]

KeyLE(a, b) ==
    \/ a.bbox[2] < b.bbox[2]
    \/ a.bbox[2] = b.bbox[2] /\ a.bbox[1] <= b.bbox[1]

\* e placed after every element of the sorted s whose key is <= e's key
RECURSIVE InsertSorted(_, _)
InsertSorted(e, s) ==
    IF s = <<>> THEN <<e>>
    ELSE IF KeyLE(s[1], e) THEN <<s[1]>> \o InsertSorted(e, Tail(s))
    ELSE <<e>> \o s

RECURSIVE SortedFrom(_, _)
SortedFrom(done, rest) ==
    IF rest = <<>> THEN done
    ELSE SortedFrom(InsertSorted(rest[1], done), Tail(rest))

SortReadingOrder(elements) == SortedFrom(<<>>, elements)

\* get_reading_order: a copy of the page's elements, sorted (stable) by the
\* centre (y, x); halves compare as the sums do
CentreKeyLE(a, b) ==
    \/ a.bbox[2] + a.bbox[4] < b.bbox[2] + b.bbox[4]
    \/ /\ a.bbox[2] + a.bbox[4] = b.bbox[2] + b.bbox[4]
       /\ a.bbox[1] + a.bbox[3] <= b.bbox[1] + b.bbox[3]

RECURSIVE InsertByCentre(_, _)
InsertByCentre(e, s) ==
    IF s = <<>> THEN <<e>>
    ELSE IF CentreKeyLE(s[1], e) THEN <<s[1]>> \o InsertByCentre(e, Tail(s))
    ELSE <<e>> \o s

RECURSIVE SortedByCentreFrom(_, _)
SortedByCentreFrom(done, rest) ==
    IF rest = <<>> THEN done
    ELSE SortedByCentreFrom(InsertByCentre(rest[1], done), Tail(rest))

get_reading_order(page_layout) == SortedByCentreFrom(<<>>, page_layout.elements)

----------------------------------------------------------------------------
(* One page *)

\* the filter with page numbers below 0 taken for page 0
RECURSIVE PageIndicesClamped(_, _, _)
PageIndicesClamped(items, pn, i) ==
    IF i > Len(items) THEN <<>>
    ELSE IF items[i].page_num = pn \/ (pn = 0 /\ items[i].page_num < 0)
         THEN <<i>> \o PageIndicesClamped(items, pn, i + 1)
         ELSE PageIndicesClamped(items, pn, i + 1)

\* the indices of the items of `items` on page pn, ascending (the filters
\* of lines 102-104 keep input order)
RECURSIVE PageIndices(_, _, _)
PageIndices(items, pn, i) ==
    IF i > Len(items) THEN <<>>
    ELSE IF items[i].page_num = pn
         THEN <<i>> \o PageIndices(items, pn, i + 1)
         ELSE PageIndices(items, pn, i + 1)

\* one LayoutElement per filtered item; `content` refers to the item by its
\* index in the input sequence
Wrap(items, pn, type, z) ==
    LET idx == PageIndices(items, pn, 1)
    IN  [k \in 1..Len(idx) |->
            LayoutElement(type, idx[k], items[idx[k]].bbox, pn, z)]

\* every element left with the z_order 0 that LayoutElement defaults to
WrappedElementsDefaultZ(pn, tbs, imgs, ocrs) ==
    Wrap(tbs, pn, "text", 0) \o Wrap(imgs, pn, "image", 0) \o Wrap(ocrs, pn, "ocr_text", 0)

\* mutant: the OCR results are wrapped before the images
WrappedElementsOcrFirst(pn, tbs, imgs, ocrs) ==
    Wrap(tbs, pn, "text", 1) \o Wrap(ocrs, pn, "ocr_text", 2) \o Wrap(imgs, pn, "image", 0)

WrappedElements(pn, tbs, imgs, ocrs) ==
    Wrap(tbs, pn, "text", 1) \o Wrap(imgs, pn, "image", 0) \o Wrap(ocrs, pn, "ocr_text", 2)

\* page_sizes[page_num] of line 106 raises IndexError: page_num is never
\* negative, so the index is out of range exactly when it is past the end
IndexFault(pn, sizes) == pn + 1 > Len(sizes)

\* mutant: the margins are calculated after the headers and footers have
\* been taken out of the list
_reconstruct_page_layout_margins_last(pn, tbs, imgs, ocrs, sizes) ==
    LET page_text_blocks == SelectSeq(tbs, LAMBDA tb : tb.page_num = pn)
        page_width  == sizes[pn + 1][1]
        page_height == sizes[pn + 1][2]
        elements == SortReadingOrder(WrappedElements(pn, tbs, imgs, ocrs))
        columns  == _detect_columns(page_text_blocks, page_width)
        parts    == _separate_headers_footers(elements, page_height)
        margins  == _calculate_margins(parts.main, page_width, page_height)
    IN  PageLayout(pn, <<page_width, page_height>>, parts.main, columns, margins,
                   parts.headers, parts.footers)

_reconstruct_page_layout(pn, tbs, imgs, ocrs, sizes) ==
    LET page_text_blocks == SelectSeq(tbs, LAMBDA tb : tb.page_num = pn)
        page_width  == sizes[pn + 1][1]
        page_height == sizes[pn + 1][2]
        elements == SortReadingOrder(WrappedElements(pn, tbs, imgs, ocrs))
        columns  == _detect_columns(page_text_blocks, page_width)
        margins  == _calculate_margins(elements, page_width, page_height)
        parts    == _separate_headers_footers(elements, page_height)
    IN  PageLayout(pn, <<page_width, page_height>>, parts.main, columns, margins,
                   parts.headers, parts.footers)

----------------------------------------------------------------------------
(* Inputs of reconstruct_layout *)

\* page sizes (width, height) in points; page i has size PageSizeList[i mod 2]
LetterSize == <<612, 792>>
SmallSize  == <<200, 100>>
PageSizeOf(i) == IF i % 2 = 0 THEN LetterSize ELSE SmallSize

\* boxes: in the header zone of the letter page and in the body of the small
\* one; with centre exactly 15% and exactly 85% of the small page's height;
\* larger than both pages, with negative coordinates (body of the letter
\* page, footer of the small one); of zero width, in the footer zone of both
Boxes ==
    { <<100, 60, 300, 80>>,
      <<10, 10, 50, 20>>,
      <<20, 80, 120, 90>>,
      <<-20, -30, 700, 900>>,
      <<50, 700, 50, 780>> }

\* the text blocks of the inputs, up to their page: one per box
TextPrototypes ==
    { [bbox |-> <<100, 60, 300, 80>>, text |-> "Hello", font_name |-> "Arial", font_size |-> 12],
      [bbox |-> <<10, 10, 50, 20>>, text |-> "Hi", font_name |-> "Times", font_size |-> 12],
      [bbox |-> <<20, 80, 120, 90>>, text |-> "World", font_name |-> "Courier", font_size |-> 10],
      [bbox |-> <<-20, -30, 700, 900>>, text |-> "Hi", font_name |-> "Arial", font_size |-> 10],
      [bbox |-> <<50, 700, 50, 780>>, text |-> "", font_name |-> "Times", font_size |-> 12] }

\* page numbers of the items of a document with pc pages: its pages and one
\* page past the last
ItemPages(pc) == 0..pc

Items(pc) == [bbox : Boxes, page_num : ItemPages(pc)]

TextItems(pc) ==
    { [bbox |-> t.bbox, page_num |-> p, text |-> t.text, font_name |-> t.font_name,
       font_size |-> t.font_size] :
        t \in TextPrototypes, p \in ItemPages(pc) }

SeqsOfLen(S, n) == [1..n -> S]

----------------------------------------------------------------------------
(* The other components are idle under a specification that is not theirs *)

LayoutIdle ==
    /\ font_mapping = _create_font_mapping
    /\ text_blocks = <<>> /\ images = <<>> /\ ocr_results = <<>>
    /\ page_count = 0 /\ page_sizes = <<>> /\ pages = <<>>
    /\ document_layout = <<>> /\ lpc = "idle"

ClusterIdle ==
    /\ coordinates = <<>> /\ tolerance = <<0, 1>> /\ clusters = <<>>
    /\ reclustered = <<>> /\ cpc = "idle"

MergeIdle ==
    /\ m_elements = <<>> /\ merged = <<>> /\ skipped = {} /\ mpc = "idle"

OverlapIdle ==
    /\ elem1 = <<>> /\ elem2 = <<>> /\ threshold = <<0, 1>>
    /\ overlap = FALSE /\ opc = "idle"

SortIdle ==
    /\ s_elements = <<>> /\ sorted_once = <<>> /\ sorted_twice = <<>> /\ spc = "idle"

DetectIdle ==
    /\ d_text_blocks = <<>> /\ d_page_height = 0 /\ d_headers = <<>>
    /\ d_footers = <<>> /\ dpc = "idle"

OcrIdle ==
    /\ image_block = <<>> /\ ocr_data = <<>> /\ confidence_threshold = 0
    /\ ocr_result = <<>> /\ ocrpc = "idle"

EngineIdle == calls = 0 /\ reading_order = <<>>

ReadIdle == r_page_layout = <<>> /\ ordered = <<>> /\ rpc = "idle"

BatchIdle ==
    /\ image_blocks = <<>> /\ processed = <<>> /\ results = <<>> /\ bpc = "idle"

MainIdle ==
    /\ valid_files = <<>> /\ returned = <<>> /\ successful = 0 /\ failed = 0
    /\ failed_files = <<>> /\ exit_code = 0 /\ mainpc = "idle"

DocxIdle ==
    /\ layout_data = <<>> /\ body = <<>> /\ header_runs = <<>> /\ footer_runs = <<>>
    /\ api_calls = <<>> /\ created = <<>> /\ page_idx = 0 /\ xpc = "idle"

\* the components around the engine, all idle
PipelineIdle == ReadIdle /\ BatchIdle /\ MainIdle /\ DocxIdle

\* the components added after the first four, all idle
OthersIdle == SortIdle /\ DetectIdle /\ OcrIdle /\ EngineIdle /\ PipelineIdle

\* the engine, the analyzer and process_image, all idle
CoreIdle ==
    /\ LayoutIdle /\ ClusterIdle /\ MergeIdle /\ OverlapIdle
    /\ SortIdle /\ DetectIdle /\ OcrIdle /\ EngineIdle

----------------------------------------------------------------------------
(* reconstruct_layout *)

LayoutInit ==
    /\ font_mapping = _create_font_mapping
    /\ page_count \in 0..MaxPages
    /\ page_sizes = [i \in 1..page_count |-> PageSizeOf(i - 1)]
    /\ \E nt \in 0..MaxItems : \E ni \in 0..(MaxItems - nt) :
         \E no \in 0..(MaxItems - nt - ni) :
            /\ text_blocks \in SeqsOfLen(TextItems(page_count), nt)
            /\ images \in SeqsOfLen(Items(page_count), ni)
            /\ ocr_results \in SeqsOfLen(Items(page_count), no)
    /\ pages = <<>>
    /\ document_layout = <<>>
    /\ lpc = "loop"

\* one iteration of the loop of lines 73-77; the next page is Len(pages)
ReconstructPage ==
    /\ lpc = "loop"
    /\ Len(pages) < page_count
    /\ ~IndexFault(Len(pages), page_sizes)
    /\ pages' = Append(pages,
                  _reconstruct_page_layout(Len(pages), text_blocks, images,
                                           ocr_results, page_sizes))
    /\ UNCHANGED <<font_mapping, text_blocks, images, ocr_results, page_count,
                   page_sizes, document_layout, lpc>>
    /\ UNCHANGED <<clusterVars, mergeVars, overlapVars,
                   sortVars, detectVars, ocrVars, engineVars, pipelineVars>>

\* the return, with the default font entered in the engine's table
ReturnLayoutRegisteringFont ==
    /\ lpc = "loop"
    /\ Len(pages) = page_count
    /\ LET gs == _extract_global_styles(text_blocks)
           table == IF text_blocks = <<>> THEN font_mapping
                    ELSE (gs.default_font :> gs.default_font) @@ font_mapping
       IN  /\ font_mapping' = table
           /\ document_layout' = [pages |-> pages, global_styles |-> gs,
                                  font_mapping |-> table]
    /\ lpc' = "done"
    /\ UNCHANGED <<text_blocks, images, ocr_results, page_count, page_sizes, pages>>
    /\ UNCHANGED <<clusterVars, mergeVars, overlapVars,
                   sortVars, detectVars, ocrVars, engineVars, pipelineVars>>

\* the loop is over: lines 79-89
ReturnLayout ==
    /\ lpc = "loop"
    /\ Len(pages) = page_count
    /\ document_layout' = [pages |-> pages,
                           global_styles |-> _extract_global_styles(text_blocks),
                           font_mapping |-> font_mapping]
    /\ lpc' = "done"
    /\ UNCHANGED <<font_mapping, text_blocks, images, ocr_results, page_count,
                   page_sizes, pages>>
    /\ UNCHANGED <<clusterVars, mergeVars, overlapVars,
                   sortVars, detectVars, ocrVars, engineVars, pipelineVars>>

\* the IndexError of line 106 caught and the pages built so far returned
ReturnPartialLayout ==
    /\ lpc = "loop"
    /\ Len(pages) < page_count
    /\ IndexFault(Len(pages), page_sizes)
    /\ document_layout' = [pages |-> pages,
                           global_styles |-> _extract_global_styles(text_blocks),
                           font_mapping |-> font_mapping]
    /\ lpc' = "done"
    /\ UNCHANGED <<font_mapping, text_blocks, images, ocr_results, page_count,
                   page_sizes, pages>>
    /\ UNCHANGED <<clusterVars, mergeVars, overlapVars,
                   sortVars, detectVars, ocrVars, engineVars, pipelineVars>>

\* the IndexError of line 106 leaves reconstruct_layout, which has no
\* handler (lines 50-89): nothing is returned
RaiseIndexError ==
    /\ lpc = "loop"
    /\ Len(pages) < page_count
    /\ IndexFault(Len(pages), page_sizes)
    /\ lpc' = "raised"
    /\ UNCHANGED <<font_mapping, text_blocks, images, ocr_results, page_count,
                   page_sizes, pages, document_layout>>
    /\ UNCHANGED <<clusterVars, mergeVars, overlapVars,
                   sortVars, detectVars, ocrVars, engineVars, pipelineVars>>

----------------------------------------------------------------------------
(* reconstruct_layout on documents whose page_sizes is shorter or longer   *)
(* than page_count says, and whose items name pages before the first and   *)
(* past the last                                                           *)

SizesPrototypes ==
    { t \in TextPrototypes : t.bbox \in { <<100, 60, 300, 80>>, <<10, 10, 50, 20>> } }

\* page numbers of the items: page -1, the document's pages, and one page
\* past the last
SizesItemPages(pc) == -1..pc

SizesItems(pc) ==
    [bbox : { t.bbox : t \in SizesPrototypes }, page_num : SizesItemPages(pc)]

SizesTextItems(pc) ==
    { [bbox |-> t.bbox, page_num |-> p, text |-> t.text, font_name |-> t.font_name,
       font_size |-> t.font_size] :
        t \in SizesPrototypes, p \in SizesItemPages(pc) }

SizesInit ==
    /\ font_mapping = _create_font_mapping
    /\ page_count \in 0..MaxPages
    /\ \E n \in 0..(MaxPages + 1) : page_sizes = [i \in 1..n |-> PageSizeOf(i - 1)]
    /\ \E nt \in 0..MaxItems : \E ni \in 0..(MaxItems - nt) :
         \E no \in 0..(MaxItems - nt - ni) :
            /\ text_blocks \in SeqsOfLen(SizesTextItems(page_count), nt)
            /\ images \in SeqsOfLen(SizesItems(page_count), ni)
            /\ ocr_results \in SeqsOfLen(SizesItems(page_count), no)
    /\ pages = <<>>
    /\ document_layout = <<>>
    /\ lpc = "loop"

InitSizes ==
    /\ SizesInit /\ ClusterIdle /\ MergeIdle /\ OverlapIdle /\ OthersIdle

NextSizes == ReconstructPage \/ ReturnLayout \/ RaiseIndexError

SpecSizes == InitSizes /\ [][NextSizes]_vars

----------------------------------------------------------------------------
(* _cluster_coordinates, applied to an input and then to its own output *)

Tolerances == {FracOfInt(t) : t \in -1..MaxTol}

ClusterInit ==
    /\ \E n \in 0..MaxCoords :
         coordinates \in SeqsOfLen({FracOfInt(x) : x \in 0..MaxCoord}, n)
    /\ tolerance \in Tolerances
    /\ clusters = <<>>
    /\ reclustered = <<>>
    /\ cpc = "input"

ClusterOnce ==
    /\ cpc = "input"
    /\ clusters' = _cluster_coordinates(coordinates, tolerance)
    /\ cpc' = "once"
    /\ UNCHANGED <<coordinates, tolerance, reclustered>>
    /\ UNCHANGED <<layoutVars, mergeVars, overlapVars,
                   sortVars, detectVars, ocrVars, engineVars, pipelineVars>>

ClusterAgain ==
    /\ cpc = "once"
    /\ reclustered' = _cluster_coordinates(clusters, tolerance)
    /\ cpc' = "twice"
    /\ UNCHANGED <<coordinates, tolerance, clusters>>
    /\ UNCHANGED <<layoutVars, mergeVars, overlapVars,
                   sortVars, detectVars, ocrVars, engineVars, pipelineVars>>

InitCluster == ClusterInit /\ LayoutIdle /\ MergeIdle /\ OverlapIdle /\ OthersIdle

NextCluster == ClusterOnce \/ ClusterAgain

SpecCluster == InitCluster /\ [][NextCluster]_vars

----------------------------------------------------------------------------
(* merge_overlapping_elements *)

ZOrderOf(type) == CASE type = "image" -> 0 [] type = "text" -> 1 [] OTHER -> 2

ElementTypes == {"text", "image", "ocr_text"}

\* a box; a box inside it; one that covers exactly 70% of it and one that
\* covers 71%; one that touches its right edge; a zero-width box inside it
MergeBoxes ==
    { <<0, 0, 100, 100>>,
      <<10, 10, 90, 90>>,
      <<30, 0, 130, 100>>,
      <<29, 0, 129, 100>>,
      <<100, 0, 200, 100>>,
      <<50, 50, 50, 60>> }

\* the elements of one page; `content` tells the elements of a list apart
MergeInputs(n) ==
    { [k \in 1..n |-> LayoutElement(t[k], k, b[k], 0, ZOrderOf(t[k]))] :
        t \in SeqsOfLen(ElementTypes, n), b \in SeqsOfLen(MergeBoxes, n) }

MergeInit ==
    /\ \E n \in 0..MaxElems : m_elements \in MergeInputs(n)
    /\ merged = <<>>
    /\ skipped = {}
    /\ mpc = "input"

Merge ==
    /\ mpc = "input"
    /\ LET r == merge_overlapping_elements(m_elements)
       IN  /\ merged' = r.merged
           /\ skipped' = r.skip_indices
           /\ mpc' = IF r.raised THEN "raised" ELSE "merged"
    /\ UNCHANGED m_elements
    /\ UNCHANGED <<layoutVars, clusterVars, overlapVars,
                   sortVars, detectVars, ocrVars, engineVars, pipelineVars>>

InitMerge == MergeInit /\ LayoutIdle /\ ClusterIdle /\ OverlapIdle /\ OthersIdle

NextMerge == Merge

SpecMerge == InitMerge /\ [][NextMerge]_vars

----------------------------------------------------------------------------
(* _elements_overlap *)

\* every box with corners on the grid: zero-area and inverted boxes too
GridBoxes == (0..MaxGrid) \X (0..MaxGrid) \X (0..MaxGrid) \X (0..MaxGrid)

\* 0, the default 0.5 of line 363, the 0.7 of line 351, and 1
Thresholds == { <<0, 1>>, <<1, 2>>, <<7, 10>>, <<1, 1>> }

OverlapInit ==
    /\ \E b1 \in GridBoxes : elem1 = LayoutElement("text", 1, b1, 0, 1)
    /\ \E b2 \in GridBoxes : elem2 = LayoutElement("image", 2, b2, 0, 0)
    /\ threshold \in Thresholds
    /\ overlap = FALSE
    /\ opc = "input"

CallOverlap ==
    /\ opc = "input"
    /\ LET r == _elements_overlap(elem1, elem2, threshold)
       IN  /\ overlap' = r.value
           /\ opc' = IF r.raised THEN "raised" ELSE "returned"
    /\ UNCHANGED <<elem1, elem2, threshold>>
    /\ UNCHANGED <<layoutVars, clusterVars, mergeVars,
                   sortVars, detectVars, ocrVars, engineVars, pipelineVars>>

InitOverlap == OverlapInit /\ LayoutIdle /\ ClusterIdle /\ MergeIdle /\ OthersIdle

NextOverlap == CallOverlap

SpecOverlap == InitOverlap /\ [][NextOverlap]_vars

----------------------------------------------------------------------------
(* The reading-order sort of line 145, applied to the list a page is built *)
(* from and then to its own output                                         *)

\* boxes with equal and different y0 and x0; two widths, so that two boxes
\* with the same sort key can still differ
SortBoxes == { <<x0, y0, x0 + w, y0 + 1>> : x0 \in 0..1, y0 \in 0..1, w \in 1..2 }

SortItems == [bbox : SortBoxes, page_num : {0}]

\* the list of lines 108-142: the page's text blocks, then its images, then
\* its OCR results, each wrapped in input order
SortInit ==
    /\ \E nt \in 0..MaxSort : \E ni \in 0..(MaxSort - nt) :
         \E no \in 0..(MaxSort - nt - ni) :
            \E tbs \in SeqsOfLen(SortItems, nt) : \E imgs \in SeqsOfLen(SortItems, ni) :
               \E ocrs \in SeqsOfLen(SortItems, no) :
                  s_elements = WrappedElements(0, tbs, imgs, ocrs)
    /\ sorted_once = <<>>
    /\ sorted_twice = <<>>
    /\ spc = "input"

SortOnce ==
    /\ spc = "input"
    /\ sorted_once' = SortReadingOrder(s_elements)
    /\ spc' = "once"
    /\ UNCHANGED <<s_elements, sorted_twice>>
    /\ UNCHANGED <<layoutVars, clusterVars, mergeVars, overlapVars,
                   detectVars, ocrVars, engineVars, pipelineVars>>

SortAgain ==
    /\ spc = "once"
    /\ sorted_twice' = SortReadingOrder(sorted_once)
    /\ spc' = "twice"
    /\ UNCHANGED <<s_elements, sorted_once>>
    /\ UNCHANGED <<layoutVars, clusterVars, mergeVars, overlapVars,
                   detectVars, ocrVars, engineVars, pipelineVars>>

InitSort ==
    /\ SortInit /\ LayoutIdle /\ ClusterIdle /\ MergeIdle /\ OverlapIdle
    /\ DetectIdle /\ OcrIdle /\ EngineIdle /\ PipelineIdle

NextSort == SortOnce \/ SortAgain

SpecSort == InitSort /\ [][NextSort]_vars

----------------------------------------------------------------------------
(* PDFAnalyzer._detect_headers_footers (src/src/pdf_analyzer.py): the      *)
(* detector applied to the raw text blocks of a page.  A text block is     *)
(* [bbox, text]; the text tells the blocks of a list apart.                *)

AnalyzerHeaderPercent == 10
AnalyzerFooterPercent == 90

\* the top edge tested against the engine's 15% instead
TopInEngineHeaderZone(tb, page_height) == 100 * tb.bbox[2] < HeaderPercent * page_height

\* tb.bbox[1] < page_height * 0.1
TopInHeaderZone(tb, page_height) == 100 * tb.bbox[2] < AnalyzerHeaderPercent * page_height

\* tb.bbox[3] > page_height * 0.9
BottomInFooterZone(tb, page_height) == 100 * tb.bbox[4] > AnalyzerFooterPercent * page_height

_detect_headers_footers(tbs, page_height) ==
    [headers |-> SelectSeq(tbs, LAMBDA tb : TopInHeaderZone(tb, page_height)),
     footers |-> SelectSeq(tbs, LAMBDA tb : BottomInFooterZone(tb, page_height))]

\* top edges just above, on and below 10% of a page 100 high, bottom edges
\* below, on and just above 90% of it
DetectBoxes == { <<0, y0, 10, y1>> : y0 \in {9, 10, 50}, y1 \in {60, 90, 91} }

DetectHeights == {100, 50}

DetectInit ==
    /\ d_page_height \in DetectHeights
    /\ \E n \in 0..MaxBlocks : \E b \in SeqsOfLen(DetectBoxes, n) :
          d_text_blocks = [k \in 1..n |-> [bbox |-> b[k], text |-> k]]
    /\ d_headers = <<>>
    /\ d_footers = <<>>
    /\ dpc = "input"

CallDetect ==
    /\ dpc = "input"
    /\ LET r == _detect_headers_footers(d_text_blocks, d_page_height)
       IN  /\ d_headers' = r.headers
           /\ d_footers' = r.footers
    /\ dpc' = "returned"
    /\ UNCHANGED <<d_text_blocks, d_page_height>>
    /\ UNCHANGED <<layoutVars, clusterVars, mergeVars, overlapVars, sortVars,
                   ocrVars, engineVars, pipelineVars>>

InitDetect ==
    /\ DetectInit /\ LayoutIdle /\ ClusterIdle /\ MergeIdle /\ OverlapIdle
    /\ SortIdle /\ OcrIdle /\ EngineIdle /\ PipelineIdle

NextDetect == CallDetect

SpecDetect == InitDetect /\ [][NextDetect]_vars

----------------------------------------------------------------------------
(* OCRProcessor.process_image (src/src/ocr_processor.py).  A string is a   *)
(* sequence of characters.  ocr_data is what lines 53-75 produce: either a *)
(* failure (the image cannot be decoded, preprocessing or Tesseract        *)
(* raises) or the recognized words with their confidences.  The returned   *)
(* value is a sequence: empty for None, of one OCRResult otherwise.        *)

Whitespace == {" ", "\t"}

\* str.strip()
RECURSIVE StripLeft(_)
StripLeft(s) ==
    IF s # <<>> /\ s[1] \in Whitespace THEN StripLeft(Tail(s)) ELSE s

RECURSIVE StripRight(_)
StripRight(s) ==
    IF s # <<>> /\ s[Len(s)] \in Whitespace THEN StripRight(SubSeq(s, 1, Len(s) - 1)) ELSE s

Strip(s) == StripRight(StripLeft(s))

\* ' '.join(text_parts)
RECURSIVE Join(_)
Join(text_parts) ==
    IF text_parts = <<>> THEN <<>>
    ELSE IF Len(text_parts) = 1 THEN text_parts[1]
    ELSE text_parts[1] \o <<" ">> \o Join(Tail(text_parts))

\* a word is taken when its confidence reaches the threshold
AcceptedAtThreshold(text, conf, thr) == text # <<>> /\ conf >= thr

\* if text and conf > self.confidence_threshold
Accepted(text, conf, thr) == text # <<>> /\ conf > thr

\* the loop of lines 81-87 from word i on
RECURSIVE WordLoop(_, _, _, _, _)
WordLoop(words, i, text_parts, confidences, thr) ==
    IF i > Len(words) THEN [text_parts |-> text_parts, confidences |-> confidences]
    ELSE LET text == Strip(words[i].text)
             conf == words[i].conf
         IN  IF Accepted(text, conf, thr)
             THEN WordLoop(words, i + 1, Append(text_parts, text),
                           Append(confidences, conf), thr)
             ELSE WordLoop(words, i + 1, text_parts, confidences, thr)

\* the except clause of lines 106-108 turns every failure into None
process_image(ib, data, thr) ==
    IF data.failed THEN <<>>
    ELSE LET r == WordLoop(data.words, 1, <<>>, <<>>, thr)
         IN  IF r.text_parts = <<>> THEN <<>>
             ELSE << [text |-> Join(r.text_parts),
                      confidence |-> Mean([k \in 1..Len(r.confidences) |->
                                              FracOfInt(r.confidences[k])]),
                      bbox |-> ib.bbox,
                      page_num |-> ib.page_num,
                      original_image_bbox |-> ib.bbox] >>

\* recognized texts: empty, blank, a word, a word between blanks
WordTexts == { <<>>, <<" ">>, <<"a">>, <<" ", "b", "\t">> }

\* confidences: Tesseract's -1 of a non-word, the default threshold 30 of
\* line 29, just above it, and 90
Confidences == {-1, 30, 31, 90}

ConfidenceThresholds == {30, 90}

Words == [text : WordTexts, conf : Confidences]

OcrInit ==
    /\ image_block \in [bbox : {<<10, 10, 50, 20>>}, page_num : {0, 1}]
    /\ \/ ocr_data = [failed |-> TRUE, words |-> <<>>]
       \/ \E n \in 0..MaxWords : \E w \in SeqsOfLen(Words, n) :
             ocr_data = [failed |-> FALSE, words |-> w]
    /\ confidence_threshold \in ConfidenceThresholds
    /\ ocr_result = <<>>
    /\ ocrpc = "input"

ProcessImage ==
    /\ ocrpc = "input"
    /\ ocr_result' = process_image(image_block, ocr_data, confidence_threshold)
    /\ ocrpc' = "returned"
    /\ UNCHANGED <<image_block, ocr_data, confidence_threshold>>
    /\ UNCHANGED <<layoutVars, clusterVars, mergeVars, overlapVars, sortVars,
                   detectVars, engineVars, pipelineVars>>

InitOcr ==
    /\ OcrInit /\ LayoutIdle /\ ClusterIdle /\ MergeIdle /\ OverlapIdle
    /\ SortIdle /\ DetectIdle /\ EngineIdle /\ PipelineIdle

NextOcr == ProcessImage

SpecOcr == InitOcr /\ [][NextOcr]_vars

----------------------------------------------------------------------------
(* A sequence of calls on one engine: reconstruct_layout on a document,    *)
(* then merge_overlapping_elements and get_reading_order on a page of the  *)
(* layout it returned, in any order and number up to MaxCalls              *)

EngineTextBlocks ==
    { <<>> } \cup
    { << [bbox |-> t.bbox, page_num |-> 0, text |-> t.text, font_name |-> t.font_name,
          font_size |-> t.font_size] >> : t \in TextPrototypes }

EngineImages == { <<>> } \cup { << [bbox |-> b, page_num |-> 0] >> : b \in Boxes }

CallReconstruct ==
    /\ calls < MaxCalls
    /\ lpc \in {"idle", "done", "raised"}
    /\ mpc # "input"
    /\ text_blocks' \in EngineTextBlocks
    /\ images' \in EngineImages
    /\ ocr_results' = <<>>
    /\ page_count' \in 1..2
    /\ page_sizes' = <<LetterSize>>
    /\ pages' = <<>>
    /\ document_layout' = <<>>
    /\ lpc' = "loop"
    /\ calls' = calls + 1
    /\ UNCHANGED <<font_mapping, reading_order>>
    /\ UNCHANGED <<clusterVars, mergeVars, overlapVars, sortVars, detectVars, ocrVars,
                   pipelineVars>>

\* merge_overlapping_elements is entered with the elements of a page
CallMerge ==
    /\ calls < MaxCalls
    /\ lpc = "done"
    /\ mpc # "input"
    /\ \E k \in 1..Len(document_layout.pages) :
          m_elements' = document_layout.pages[k].elements
    /\ merged' = <<>>
    /\ skipped' = {}
    /\ mpc' = "input"
    /\ calls' = calls + 1
    /\ UNCHANGED <<layoutVars, reading_order>>
    /\ UNCHANGED <<clusterVars, overlapVars, sortVars, detectVars, ocrVars,
                   pipelineVars>>

CallReadingOrder ==
    /\ calls < MaxCalls
    /\ lpc = "done"
    /\ mpc # "input"
    /\ \E k \in 1..Len(document_layout.pages) :
          reading_order' = get_reading_order(document_layout.pages[k])
    /\ calls' = calls + 1
    /\ UNCHANGED <<layoutVars, clusterVars, mergeVars, overlapVars, sortVars,
                   detectVars, ocrVars, pipelineVars>>

InitEngine ==
    /\ LayoutIdle /\ ClusterIdle /\ MergeIdle /\ OverlapIdle /\ OthersIdle

NextEngine ==
    \/ CallReconstruct \/ ReconstructPage \/ ReturnLayout \/ RaiseIndexError
    \/ CallMerge \/ Merge \/ CallReadingOrder

SpecEngine == InitEngine /\ [][NextEngine]_vars

----------------------------------------------------------------------------
(* get_reading_order on one page: the sort of lines 325-328 works on the   *)
(* copy made at line 321, so the page is left as it was                    *)

\* mutant: the page's own list is sorted (no copy)
PageAfterSortInPlace(pl) == [pl EXCEPT !.elements = get_reading_order(pl)]

\* the page after the call: no attribute of page_layout is assigned and the
\* list sorted is the copy
PageAfterGetReadingOrder(pl) == pl

\* boxes <<x0, y0, x1, y1>>: two with the same centre and different corners,
\* and two whose order by top edge is the reverse of their order by centre
ReadBoxes == { <<0, 0, 4, 4>>, <<1, 1, 3, 3>>, <<0, 2, 2, 6>>, <<0, 3, 1, 4>> }

InitReadingOrder ==
    /\ \E n \in 0..MaxOrder : \E b \in SeqsOfLen(ReadBoxes, n) :
       \E t \in SeqsOfLen({"text", "image"}, n) :
       \E h, f \in {<<>>, <<LayoutElement("text", 0, <<0, 0, 1, 1>>, 0, 1)>>} :
          r_page_layout =
             PageLayout(0, <<10, 10>>,
                        [i \in 1..n |-> LayoutElement(t[i], i, b[i], 0, ZOrderOf(t[i]))],
                        <<[x_start |-> 0, x_end |-> 10, width |-> 10]>>,
                        [top |-> 0, bottom |-> 0, left |-> 0, right |-> 0],
                        h, f)
    /\ ordered = <<>>
    /\ rpc = "input"
    /\ CoreIdle /\ BatchIdle /\ MainIdle /\ DocxIdle

GetReadingOrder ==
    /\ rpc = "input"
    /\ ordered' = get_reading_order(r_page_layout)
    /\ r_page_layout' = PageAfterGetReadingOrder(r_page_layout)
    /\ rpc' = "returned"
    /\ UNCHANGED <<coreVars, batchVars, mainVars, docxVars>>

NextReadingOrder == GetReadingOrder

SpecReadingOrder == InitReadingOrder /\ [][NextReadingOrder]_vars

----------------------------------------------------------------------------
(* OCRProcessor.batch_process_images: one process_image call per image     *)
(* block; the processor has the default confidence threshold               *)

\* confidence_threshold: float = 30.0
DefaultConfidenceThreshold == 30

\* mutant: the newest result is put in front
PrependResult(acc, res) ==
    IF res # <<>> THEN res \o acc ELSE acc

\* if ocr_result: results.append(ocr_result); res is the sequence
\* process_image returns, empty for None (an OCRResult is always true)
AppendResult(acc, res) ==
    IF res # <<>> THEN acc \o res ELSE acc

\* image block i has the box <<i, 0, i + 1, 1>> and is on page i - 1; its
\* processing fails, finds no word, finds the word "a" with confidence 90,
\* finds it with the threshold's confidence, or finds a blank
InitBatch ==
    /\ \E n \in 0..MaxImages :
       \E d \in SeqsOfLen({ [failed |-> TRUE, words |-> <<>>],
                            [failed |-> FALSE, words |-> <<>>],
                            [failed |-> FALSE, words |-> <<[text |-> <<"a">>, conf |-> 90]>>],
                            [failed |-> FALSE, words |-> <<[text |-> <<"a">>, conf |-> 30]>>],
                            [failed |-> FALSE, words |-> <<[text |-> <<" ">>, conf |-> 90]>>] },
                          n) :
          image_blocks = [i \in 1..n |->
                            [bbox |-> <<i, 0, i + 1, 1>>, page_num |-> i - 1, data |-> d[i]]]
    /\ processed = <<>>
    /\ results = <<>>
    /\ bpc = "loop"
    /\ CoreIdle /\ ReadIdle /\ MainIdle /\ DocxIdle

\* one iteration of the loop of lines 197-201
ProcessNextImage ==
    /\ bpc = "loop"
    /\ Len(processed) < Len(image_blocks)
    /\ LET i == Len(processed) + 1
           res == process_image(image_blocks[i], image_blocks[i].data,
                                DefaultConfidenceThreshold)
       IN  /\ processed' = Append(processed, i)
           /\ results' = AppendResult(results, res)
    /\ UNCHANGED <<image_blocks, bpc>>
    /\ UNCHANGED <<coreVars, readVars, mainVars, docxVars>>

\* the loop is over: return results
ReturnResults ==
    /\ bpc = "loop"
    /\ Len(processed) = Len(image_blocks)
    /\ bpc' = "returned"
    /\ UNCHANGED <<image_blocks, processed, results>>
    /\ UNCHANGED <<coreVars, readVars, mainVars, docxVars>>

NextBatch == ProcessNextImage \/ ReturnResults

SpecBatch == InitBatch /\ [][NextBatch]_vars

----------------------------------------------------------------------------
(* main.py: convert_pdf_to_docx and the loop of main over the valid files. *)
(* A file is what happens when it is converted: analyze_pdf raises (it     *)
(* logs and re-raises), reconstruct_layout raises, or create_document is   *)
(* reached and returns False (building or saving raised inside it) or True *)

\* lines 31-80: an exception of a step is caught at line 78 and False
\* returned; the call of line 73 is a statement, its value is dropped, and
\* line 76 returns True
convert_pdf_to_docx(pdf_path) ==
    IF pdf_path \in {"analyze_pdf raises", "reconstruct_layout raises"}
    THEN FALSE
    ELSE TRUE

\* main exits at line 116 when there is no valid file
InitMain ==
    /\ \E n \in 1..MaxFiles :
          valid_files \in SeqsOfLen({ "analyze_pdf raises", "reconstruct_layout raises",
                                      "create_document returns False",
                                      "create_document returns True" }, n)
    /\ returned = <<>>
    /\ successful = 0 /\ failed = 0 /\ failed_files = <<>>
    /\ exit_code = 0
    /\ mainpc = "loop"
    /\ CoreIdle /\ ReadIdle /\ BatchIdle /\ DocxIdle

\* one iteration of the loop of lines 126-137
ConvertNextFile ==
    /\ mainpc = "loop"
    /\ Len(returned) < Len(valid_files)
    /\ LET k == Len(returned) + 1
           ok == convert_pdf_to_docx(valid_files[k])
       IN  /\ returned' = Append(returned, ok)
           /\ IF ok
              THEN /\ successful' = successful + 1
                   /\ UNCHANGED <<failed, failed_files>>
              ELSE /\ failed' = failed + 1
                   /\ failed_files' = Append(failed_files, k)
                   /\ UNCHANGED successful
    /\ UNCHANGED <<valid_files, exit_code, mainpc>>
    /\ UNCHANGED <<coreVars, readVars, batchVars, docxVars>>

\* lines 140-143: the summary, and exit status 1 when no file succeeded
ExitMain ==
    /\ mainpc = "loop"
    /\ Len(returned) = Len(valid_files)
    /\ exit_code' = IF successful = 0 THEN 1 ELSE 0
    /\ mainpc' = "exited"
    /\ UNCHANGED <<valid_files, returned, successful, failed, failed_files>>
    /\ UNCHANGED <<coreVars, readVars, batchVars, docxVars>>

NextMain == ConvertNextFile \/ ExitMain

SpecMain == InitMain /\ [][NextMain]_vars

----------------------------------------------------------------------------
(* DocxBuilder.create_document (src/src/docx_builder.py).  A string is a   *)
(* sequence of pieces, a run is its text, a call on the document is        *)
(* [call, page, element, runs]: what is called, while which page is        *)
(* processed, for which element of the group (its index), with which runs. *)
(* The document has one section; self.current_section is that section.     *)

\* sorted(elements, key=lambda e: (e.bbox[1], e.bbox[0])), on the indices
\* of the list
_get_reading_order(elements) ==
    LET indexed == [i \in 1..Len(elements) |-> [index |-> i, bbox |-> elements[i].bbox]]
        in_order == SortReadingOrder(indexed)
    IN  [k \in 1..Len(in_order) |-> in_order[k].index]

\* the runs of the paragraph added for one body element: the text; a
\* picture, or the placeholder when the image data cannot be opened; the
\* OCR text and, below a confidence of 70, the note.  Another element type
\* adds nothing
_add_element_to_document(element) ==
    CASE element.element_type = "text" -> << <<element.content.text>> >>
      [] element.element_type = "image" ->
            IF element.content.decodable
            THEN << << <<"<picture>">> >> >>
            ELSE << << <<"[Image could not be inserted]">> >> >>
      [] element.element_type = "ocr_text" ->
            IF element.content.confidence < 70
            THEN << <<element.content.text,
                      <<" [OCR confidence: ", ToString(element.content.confidence),
                        "%]">> >> >>
            ELSE << <<element.content.text>> >>
      [] OTHER -> <<>>

\* the indices of the text elements of a header or footer group
TextIndices(group) == SelectSeq([i \in 1..Len(group) |-> i],
                                LAMBDA i : group[i].element_type = "text")

\* mutant: the runs are added to those the paragraph has
_add_headers_keeping(paragraph_runs, header_elements) ==
    paragraph_runs \o [k \in 1..Len(TextIndices(header_elements)) |->
                          header_elements[TextIndices(header_elements)[k]].content.text
                             \o <<" ">>]

\* header_paragraph.clear(), then one run per text element
_add_headers(paragraph_runs, header_elements) ==
    [k \in 1..Len(TextIndices(header_elements)) |->
        header_elements[TextIndices(header_elements)[k]].content.text \o <<" ">>]

\* footer_paragraph.clear(), then one run per text element
_add_footers(paragraph_runs, footer_elements) ==
    [k \in 1..Len(TextIndices(footer_elements)) |->
        footer_elements[TextIndices(footer_elements)[k]].content.text \o <<" ">>]

\* the pages of the layout: each with no header, a text header, an image
\* and a text header or an OCR header; with no body, a body the sort has to
\* reorder or one of two elements with equal keys; with no footer or an
\* image and a text footer
InitDocx ==
    /\ LET tA == [element_type |-> "text", content |-> [text |-> <<"A">>],
                  bbox |-> <<0, 0, 10, 5>>]
           tB == [element_type |-> "text", content |-> [text |-> <<"B">>],
                  bbox |-> <<0, 40, 10, 50>>]
           tC == [element_type |-> "text", content |-> [text |-> <<"C">>],
                  bbox |-> <<0, 95, 10, 99>>]
           im == [element_type |-> "image", content |-> [decodable |-> TRUE],
                  bbox |-> <<0, 20, 10, 30>>]
           bad == [element_type |-> "image", content |-> [decodable |-> FALSE],
                   bbox |-> <<0, 20, 10, 30>>]
           low == [element_type |-> "ocr_text",
                   content |-> [text |-> <<"c">>, confidence |-> 60],
                   bbox |-> <<0, 20, 10, 30>>]
           high == [element_type |-> "ocr_text",
                    content |-> [text |-> <<"d">>, confidence |-> 70],
                    bbox |-> <<0, 2, 10, 4>>]
       IN  \E n \in 0..MaxDocPages :
              layout_data \in SeqsOfLen([headers : {<<>>, <<tA>>, <<im, tB>>, <<high>>},
                                         elements : {<<>>, <<tB, im>>, <<bad, low>>},
                                         footers : {<<>>, <<im, tC>>}], n)
    /\ body = <<>> /\ header_runs = <<>> /\ footer_runs = <<>>
    /\ api_calls = <<>> /\ created = <<>>
    /\ page_idx = 0
    /\ xpc = "pages"
    /\ CoreIdle /\ ReadIdle /\ BatchIdle /\ MainIdle

\* one iteration of the loop of lines 50-56: _process_page, and the page
\* break unless the page is the last
ProcessPage ==
    /\ xpc = "pages"
    /\ LET p == page_idx + 1
       IN  /\ p <= Len(layout_data)
           /\ LET pl == layout_data[p]
                  reading_order_elements == _get_reading_order(pl.elements)
                  new_header == _add_headers(header_runs, pl.headers)
                  new_footer == _add_footers(footer_runs, pl.footers)
                  paragraphs ==
                      [k \in 1..Len(reading_order_elements) |->
                          [call |-> "add_paragraph", page |-> p,
                           element |-> reading_order_elements[k],
                           runs |-> _add_element_to_document(
                                       pl.elements[reading_order_elements[k]])[1]]]
                  header_calls ==
                      IF pl.headers = <<>> THEN <<>>
                      ELSE <<[call |-> "header.clear", page |-> p, element |-> 0,
                              runs |-> <<>>]>>
                           \o [k \in 1..Len(TextIndices(pl.headers)) |->
                                 [call |-> "header.add_run", page |-> p,
                                  element |-> TextIndices(pl.headers)[k],
                                  runs |-> <<pl.headers[TextIndices(pl.headers)[k]]
                                                .content.text \o <<" ">> >>]]
                  footer_calls ==
                      IF pl.footers = <<>> THEN <<>>
                      ELSE <<[call |-> "footer.clear", page |-> p, element |-> 0,
                              runs |-> <<>>]>>
                           \o [k \in 1..Len(TextIndices(pl.footers)) |->
                                 [call |-> "footer.add_run", page |-> p,
                                  element |-> TextIndices(pl.footers)[k],
                                  runs |-> <<pl.footers[TextIndices(pl.footers)[k]]
                                                .content.text \o <<" ">> >>]]
                  page_break ==
                      IF page_idx < Len(layout_data) - 1
                      THEN <<[call |-> "add_page_break", page |-> p, element |-> 0,
                              runs |-> <<>>]>>
                      ELSE <<>>
              IN  /\ header_runs' = IF pl.headers = <<>> THEN header_runs ELSE new_header
                  /\ footer_runs' = IF pl.footers = <<>> THEN footer_runs ELSE new_footer
                  /\ body' = body \o [k \in 1..Len(paragraphs) |-> paragraphs[k].runs]
                                  \o [k \in 1..Len(page_break) |->
                                        << <<"<page break>">> >>]
                  /\ api_calls' = api_calls \o header_calls \o paragraphs
                                     \o footer_calls \o page_break
                  /\ page_idx' = p
    /\ UNCHANGED <<layout_data, created, xpc>>
    /\ UNCHANGED <<coreVars, readVars, batchVars, mainVars>>

\* lines 59-65 after the loop: document.save; when it raises, the handler of
\* line 63 returns False
SaveDocument ==
    /\ xpc = "pages"
    /\ page_idx = Len(layout_data)
    /\ \E saved \in BOOLEAN :
          /\ created' = <<saved>>
          /\ api_calls' = Append(api_calls, [call |-> "save", page |-> 0, element |-> 0,
                                             runs |-> <<>>])
    /\ xpc' = "returned"
    /\ UNCHANGED <<layout_data, body, header_runs, footer_runs, page_idx>>
    /\ UNCHANGED <<coreVars, readVars, batchVars, mainVars>>

NextDocx == ProcessPage \/ SaveDocument

SpecDocx == InitDocx /\ [][NextDocx]_vars

----------------------------------------------------------------------------
(* The specification of reconstruct_layout *)

Init == LayoutInit /\ ClusterIdle /\ MergeIdle /\ OverlapIdle /\ OthersIdle

Next == ReconstructPage \/ ReturnLayout

Spec == Init /\ [][Next]_vars

----------------------------------------------------------------------------
(* Properties of reconstruct_layout *)

\* the three groups of a page, one after the other
AllGroups(pl) == pl.headers \o pl.elements \o pl.footers

\* the elements page p must hold: one per input item whose page_num is p
ExpectedElements(p) ==
    {LayoutElement("text", i, text_blocks[i].bbox, p, 1) :
        i \in {j \in 1..Len(text_blocks) : text_blocks[j].page_num = p}}
    \cup {LayoutElement("image", i, images[i].bbox, p, 0) :
        i \in {j \in 1..Len(images) : images[j].page_num = p}}
    \cup {LayoutElement("ocr_text", i, ocr_results[i].bbox, p, 2) :
        i \in {j \in 1..Len(ocr_results) : ocr_results[j].page_num = p}}

Occurrences(seq, e) == Cardinality({k \in 1..Len(seq) : seq[k] = e})

\* C1: on every page headers, footers and elements are pairwise disjoint,
\* and together they hold each input item of that page exactly once and
\* nothing else.
C1_GroupsPartitionPage ==
    \A k \in 1..Len(pages) :
        LET pl == pages[k] IN
        /\ Range(pl.headers) \cap Range(pl.footers) = {}
        /\ Range(pl.headers) \cap Range(pl.elements) = {}
        /\ Range(pl.footers) \cap Range(pl.elements) = {}
        /\ Range(AllGroups(pl)) = ExpectedElements(k - 1)
        /\ \A e \in ExpectedElements(k - 1) : Occurrences(AllGroups(pl), e) = 1

\* a returned layout with a page that has a header and a body element, and
\* an input item that is on another page
C1_Witness ==
    /\ lpc = "done"
    /\ \E k \in 1..Len(pages) :
         /\ pages[k].headers # <<>>
         /\ pages[k].elements # <<>>
    /\ Len(text_blocks) + Len(images) + Len(ocr_results) = 2

\* twice the vertical centre of an element
TwiceCentre(e) == e.bbox[2] + e.bbox[4]

\* C2: an element is a header iff its centre is below 15% of the page
\* height, a footer iff it is not and its centre is above 85%, body
\* otherwise; a centre exactly at 15% or 85% is body; on a (612, 792) page
\* the text block (100, 60, 300, 80) is a header and not in elements.
C2_ZoneByCentre ==
    \A k \in 1..Len(pages) :
        LET pl == pages[k]
            h  == pl.page_size[2]
        IN
        /\ \A e \in Range(AllGroups(pl)) :
            LET isHeader == 100 * TwiceCentre(e) < 30 * h
                isFooter == ~isHeader /\ 100 * TwiceCentre(e) > 170 * h
            IN  /\ e \in Range(pl.headers) <=> isHeader
                /\ e \in Range(pl.footers) <=> isFooter
                /\ e \in Range(pl.elements) <=> ~isHeader /\ ~isFooter
                /\ (100 * TwiceCentre(e) = 30 * h \/ 100 * TwiceCentre(e) = 170 * h)
                       => e \in Range(pl.elements)
        /\ \A i \in 1..Len(text_blocks) :
            (/\ pl.page_size = <<612, 792>>
             /\ text_blocks[i].page_num = k - 1
             /\ text_blocks[i].bbox = <<100, 60, 300, 80>>)
            => \E e \in Range(pl.headers) :
                  /\ e.element_type = "text" /\ e.content = i
                  /\ e \notin Range(pl.elements)

\* the text block of the scenario is a header of the first page, and the
\* second page has a body element whose centre is exactly 15% of its height
C2_Witness ==
    /\ Len(pages) = 2
    /\ \E e \in Range(pages[1].headers) :
         e.element_type = "text" /\ e.bbox = <<100, 60, 300, 80>>
    /\ pages[1].page_size = <<612, 792>>
    /\ \E e \in Range(pages[2].elements) :
         100 * TwiceCentre(e) = 30 * pages[2].page_size[2]

\* C5: every margin of every page is >= 0.
C5_MarginsNonNegative ==
    \A k \in 1..Len(pages) :
        /\ pages[k].margins.top >= 0
        /\ pages[k].margins.bottom >= 0
        /\ pages[k].margins.left >= 0
        /\ pages[k].margins.right >= 0

\* a page with an element that reaches beyond all four page edges, and a
\* page with a zero-area element
C5_Witness ==
    /\ \E k \in 1..Len(pages) : \E e \in Range(AllGroups(pages[k])) :
         /\ e.bbox[1] < 0 /\ e.bbox[2] < 0
         /\ e.bbox[3] > pages[k].page_size[1]
         /\ e.bbox[4] > pages[k].page_size[2]
    /\ \E k \in 1..Len(pages) : \E e \in Range(AllGroups(pages[k])) :
         e.bbox[1] = e.bbox[3]

\* the boxes of the input items of page p
PageBoxes(p) ==
    {text_blocks[i].bbox : i \in {j \in 1..Len(text_blocks) : text_blocks[j].page_num = p}}
    \cup {images[i].bbox : i \in {j \in 1..Len(images) : images[j].page_num = p}}
    \cup {ocr_results[i].bbox : i \in {j \in 1..Len(ocr_results) : ocr_results[j].page_num = p}}

\* C6: with elements, top = max(0, min y0), bottom = max(0, page_height -
\* max y1), left = max(0, min x0), right = max(0, page_width - max x1);
\* without elements all four margins are 72 whatever the page size.
C6_MarginValues ==
    \A k \in 1..Len(pages) :
        LET B == PageBoxes(k - 1)
            m == pages[k].margins
            w == pages[k].page_size[1]
            h == pages[k].page_size[2]
        IN  IF B = {}
            THEN m = [top |-> 72, bottom |-> 72, left |-> 72, right |-> 72]
            ELSE /\ m.top = Max2(0, SetMin({b[2] : b \in B}))
                 /\ m.bottom = Max2(0, h - SetMax({b[4] : b \in B}))
                 /\ m.left = Max2(0, SetMin({b[1] : b \in B}))
                 /\ m.right = Max2(0, w - SetMax({b[3] : b \in B}))

\* two pages of different sizes: the first with two elements and four
\* positive margins, the second empty
C6_Witness ==
    /\ Len(pages) = 2
    /\ Cardinality(PageBoxes(0)) = 2
    /\ pages[1].margins.top > 0 /\ pages[1].margins.bottom > 0
    /\ pages[1].margins.left > 0 /\ pages[1].margins.right > 0
    /\ PageBoxes(1) = {}
    /\ pages[2].page_size # pages[1].page_size

\* the boxes of the text blocks of page p
PageTextBoxes(p) ==
    {text_blocks[i].bbox : i \in {j \in 1..Len(text_blocks) : text_blocks[j].page_num = p}}

\* C7: a page has exactly one column: from the least x0 to the greatest x1
\* of its text blocks, or from 0 to the page width when it has none; its
\* width is x_end - x_start.
C7_SingleColumn ==
    \A k \in 1..Len(pages) :
        LET T == PageTextBoxes(k - 1)
            cols == pages[k].columns
        IN  /\ Len(cols) = 1
            /\ cols[1].width = cols[1].x_end - cols[1].x_start
            /\ IF T = {}
               THEN cols[1].x_start = 0 /\ cols[1].x_end = pages[k].page_size[1]
               ELSE /\ cols[1].x_start = SetMin({b[1] : b \in T})
                    /\ cols[1].x_end = SetMax({b[3] : b \in T})

\* a page with a text block and a wider image, and a page with an image
\* and no text
C7_Witness ==
    /\ \E k \in 1..Len(pages) :
         /\ PageTextBoxes(k - 1) # {}
         /\ \E e \in Range(AllGroups(pages[k])) :
              /\ e.element_type = "image"
              /\ e.bbox[1] < pages[k].columns[1].x_start
              /\ e.bbox[3] > pages[k].columns[1].x_end
    /\ \E k \in 1..Len(pages) :
         /\ PageTextBoxes(k - 1) = {}
         /\ pages[k].columns[1].x_end = pages[k].page_size[1]

----------------------------------------------------------------------------
(* Properties of _cluster_coordinates *)

\* C3: clustering the output of a clustering again, with the same
\* tolerance >= 0, gives that output back.
C3_ClusteringIdempotent ==
    (cpc = "twice" /\ FracLE(<<0, 1>>, tolerance)) => reclustered = clusters

\* both applications are done; the first one put several coordinates into
\* one cluster and left at least two clusters
C3_Witness ==
    /\ cpc = "twice"
    /\ FracLT(<<0, 1>>, tolerance)
    /\ Len(clusters) >= 2
    /\ Len(clusters) < Cardinality(Range(coordinates))
    /\ \E k \in 1..Len(clusters) : clusters[k][2] # 1

\* the distinct input values, as integers
InputValues == {c[1] : c \in Range(coordinates)}

\* the values that are more than the tolerance above the next smaller one
ClusterBreaks ==
    {v \in InputValues :
        /\ \E u \in InputValues : u < v
        /\ v - SetMax({u \in InputValues : u < v}) > tolerance[1]}

\* the first value of each cluster
ClusterStarts ==
    IF InputValues = {} THEN {} ELSE {SetMin(InputValues)} \cup ClusterBreaks

\* the members of the cluster that starts at s
ClusterMembers(s) ==
    {v \in InputValues :
        /\ s <= v
        /\ \A t \in ClusterStarts : t > s => v < t}

\* the k-th smallest start
KthStart(k) ==
    CHOOSE s \in ClusterStarts : Cardinality({t \in ClusterStarts : t < s}) = k - 1

RECURSIVE SumOfSet(_)
SumOfSet(S) ==
    IF S = {} THEN 0 ELSE LET x == CHOOSE y \in S : TRUE IN x + SumOfSet(S \ {x})

\* C4: the output has one value per maximal run of the sorted distinct
\* inputs whose consecutive gaps are all <= tolerance (1 + the number of
\* larger gaps; none for an empty input), each the mean of its run, in
\* strictly ascending order.
C4_ClusterMeans ==
    cpc # "input" =>
        /\ Len(clusters) = Cardinality(ClusterStarts)
        /\ coordinates = <<>> => clusters = <<>>
        /\ coordinates # <<>> => Len(clusters) = 1 + Cardinality(ClusterBreaks)
        /\ \A k \in 1..Len(clusters) :
             LET M == ClusterMembers(KthStart(k))
             IN  clusters[k][1] * Cardinality(M) = SumOfSet(M) * clusters[k][2]
        /\ \A k \in 1..(Len(clusters) - 1) : FracLT(clusters[k], clusters[k + 1])

\* an unsorted input whose first cluster is a chain
\* of three values that spans more than the tolerance and whose mean is not
\* its midpoint
C4_Witness ==
    /\ cpc = "once"
    /\ \E i \in 1..(Len(coordinates) - 1) : FracLT(coordinates[i + 1], coordinates[i])
    /\ Len(clusters) >= 1
    /\ LET M == ClusterMembers(KthStart(1))
       IN  /\ Cardinality(M) >= 3
           /\ SetMax(M) - SetMin(M) > tolerance[1]
           /\ 2 * clusters[1][1] # (SetMax(M) + SetMin(M)) * clusters[1][2]

----------------------------------------------------------------------------
(* Properties of merge_overlapping_elements and _elements_overlap *)

IntervalOverlap(lo1, hi1, lo2, hi2) == Max2(0, Min2(hi1, hi2) - Max2(lo1, lo2))

IntersectionArea(b1, b2) ==
    IntervalOverlap(b1[1], b1[3], b2[1], b2[3]) * IntervalOverlap(b1[2], b1[4], b2[2], b2[4])

BoxArea(b) == (b[3] - b[1]) * (b[4] - b[2])

SmallerArea(b1, b2) == Min2(BoxArea(b1), BoxArea(b2))

\* intersection_area / min(area) > n / d, for a smaller area > 0; no box
\* of area <= 0 has a positive intersection
OverlapRatioAbove(b1, b2, n, d) ==
    /\ SmallerArea(b1, b2) > 0
    /\ IntersectionArea(b1, b2) * d > n * SmallerArea(b1, b2)

OverlapRatioIs(b1, b2, n, d) ==
    /\ SmallerArea(b1, b2) > 0
    /\ IntersectionArea(b1, b2) * d = n * SmallerArea(b1, b2)

\* C8: a text element and an image element whose overlap ratio exceeds
\* 0.7, in either order, merge to the text element alone.
C8_TextImagePairKeepsText ==
    (/\ mpc # "input"
     /\ Len(m_elements) = 2
     /\ {m_elements[1].element_type, m_elements[2].element_type} = {"text", "image"}
     /\ OverlapRatioAbove(m_elements[1].bbox, m_elements[2].bbox, 7, 10))
    => /\ mpc = "merged"
       /\ Len(merged) = 1
       /\ merged[1] \in Range(m_elements)
       /\ merged[1].element_type = "text"

\* the scenario with the image first: image (10,10,90,90), text (0,0,100,100)
C8_Witness ==
    /\ mpc = "merged"
    /\ Len(m_elements) = 2
    /\ m_elements[1].element_type = "image" /\ m_elements[1].bbox = <<10, 10, 90, 90>>
    /\ m_elements[2].element_type = "text" /\ m_elements[2].bbox = <<0, 0, 100, 100>>
    /\ merged = <<m_elements[2]>>

\* C9: the output is no longer than the input, holds only input elements,
\* each at most once, and is shorter by the number of discarded elements;
\* an input of length 0 or 1 is returned as it is.
C9_MergeOutputShape ==
    mpc = "merged" =>
        /\ Len(merged) <= Len(m_elements)
        /\ \A k \in 1..Len(merged) : merged[k] \in Range(m_elements)
        /\ \A k, l \in 1..Len(merged) : k # l => merged[k] # merged[l]
        /\ skipped \subseteq 1..Len(m_elements)
        /\ Len(merged) = Len(m_elements) - Cardinality(skipped)
        /\ Len(m_elements) <= 1 => merged = m_elements

\* three elements: the first discards the second and is itself replaced by
\* the third
C9_Witness ==
    /\ mpc = "merged"
    /\ Len(m_elements) = 3
    /\ skipped = {2, 3}
    /\ merged = <<m_elements[3]>>

\* a box of positive width and height.  (A box inverted on both axes is
\* empty, though the product of line 378 is positive for it.)
ProperBox(b) == b[1] < b[3] /\ b[2] < b[4]

\* C10: _elements_overlap returns true exactly when the overlap ratio is
\* strictly above the threshold: identical boxes of positive area overlap
\* for every threshold below 1, boxes that are disjoint or only touch never
\* do, and a ratio equal to the threshold does not count.
C10_OverlapIffRatioAbove ==
    opc = "returned" =>
        /\ overlap <=> OverlapRatioAbove(elem1.bbox, elem2.bbox, threshold[1], threshold[2])
        /\ (elem1.bbox = elem2.bbox /\ ProperBox(elem1.bbox))
               => (overlap <=> FracLT(threshold, <<1, 1>>))
        /\ IntersectionArea(elem1.bbox, elem2.bbox) = 0 => ~overlap
        /\ OverlapRatioIs(elem1.bbox, elem2.bbox, threshold[1], threshold[2]) => ~overlap

\* two boxes of area 2 that share area 1, compared at the threshold 1/2
C10_Witness ==
    /\ opc = "returned"
    /\ ~overlap
    /\ threshold = <<1, 2>>
    /\ elem1.bbox # elem2.bbox
    /\ OverlapRatioIs(elem1.bbox, elem2.bbox, 1, 2)

\* the elements at positions i and j of the input overlap above 0.7
InputsOverlap(i, j) == OverlapRatioAbove(m_elements[i].bbox, m_elements[j].bbox, 7, 10)

\* DiscardedBefore[i]: the positions discarded by the scans of the outer
\* elements before position i.  An outer element at k, not discarded itself,
\* discards every later position that is not yet discarded and overlaps it.
RECURSIVE DiscardedUpTo(_)
DiscardedUpTo(i) ==
    IF i = 0 THEN {}
    ELSE LET before == DiscardedUpTo(i - 1)
         IN  IF i \in before THEN before
             ELSE before \cup { j \in (i + 1)..Len(m_elements) :
                                  j \notin before /\ InputsOverlap(i, j) }

\* the positions of the outer elements that are scanned, ascending
OuterPositions == { i \in 1..Len(m_elements) : i \notin DiscardedUpTo(i - 1) }

\* the group of the outer element at i: i and the positions discarded
\* against it in its scan
GroupOf(i) == {i} \cup (DiscardedUpTo(i) \ DiscardedUpTo(i - 1))

\* the position in `merged` of the element emitted for the outer element at i
EmittedAt(i) == Cardinality({ k \in OuterPositions : k <= i })

\* C23: merge_overlapping_elements prefers text over images for every input
\* list: for every outer element that is not already discarded, the element
\* emitted for its group (the outer element and the elements discarded
\* against it in that scan) is not an image when the group holds a text
\* element.
C23_GroupWithTextEmitsNoImage ==
    (mpc = "merged" /\ Len(m_elements) >= 2) =>
       /\ Len(merged) = Cardinality(OuterPositions)
       /\ \A i \in OuterPositions :
             (\E j \in GroupOf(i) : m_elements[j].element_type = "text")
                => merged[EmittedAt(i)].element_type # "image"

\* C24: in the list merge_overlapping_elements returns, no two distinct
\* elements have an overlap ratio greater than 0.7, for every input list.
C24_OutputFreeOfOverlaps ==
    mpc = "merged" =>
       \A k, l \in 1..Len(merged) :
          k # l => ~OverlapRatioAbove(merged[k].bbox, merged[l].bbox, 7, 10)

\* the intersection has positive width and height: the case in which
\* line 382 divides
DivisionReached(b1, b2) ==
    /\ IntervalOverlap(b1[1], b1[3], b2[1], b2[3]) > 0
    /\ IntervalOverlap(b1[2], b1[4], b2[2], b2[4]) > 0

----------------------------------------------------------------------------
(* Properties of the reading-order sort *)

\* position of an element in the list before the sort (an element is
\* identified by its type and content)
PreSortIndex(e) == CHOOSE k \in 1..Len(s_elements) : s_elements[k] = e

\* text blocks are wrapped first, then images, then OCR results
KindRank(type) == CASE type = "text" -> 1 [] type = "image" -> 2 [] type = "ocr_text" -> 3

\* C11: the sort of a page's list orders it ascending by (y0, x0): the sorted
\* list holds the same elements, an element with a strictly smaller y0
\* precedes one with a larger y0, with equal y0 the smaller x0 comes first,
\* elements with equal (y0, x0) keep their order of before the sort (text
\* blocks, then images, then OCR results, each in input order), and sorting
\* the sorted list again leaves it unchanged.
C11_SortAscendingStable ==
    /\ spc \in {"once", "twice"} =>
          /\ Len(sorted_once) = Len(s_elements)
          /\ Range(sorted_once) = Range(s_elements)
          /\ \A i, j \in 1..Len(sorted_once) :
                i < j =>
                   LET a == sorted_once[i]
                       b == sorted_once[j]
                   IN  /\ a.bbox[2] <= b.bbox[2]
                       /\ a.bbox[2] = b.bbox[2] => a.bbox[1] <= b.bbox[1]
                       /\ (a.bbox[2] = b.bbox[2] /\ a.bbox[1] = b.bbox[1]) =>
                             /\ PreSortIndex(a) < PreSortIndex(b)
                             /\ \/ KindRank(a.element_type) < KindRank(b.element_type)
                                \/ a.element_type = b.element_type /\ a.content < b.content
    /\ spc = "twice" => sorted_twice = sorted_once

\* the sort was applied twice to a list it had to reorder, with an image and
\* a text block of equal (y0, x0) and different boxes
C11_Witness ==
    /\ spc = "twice"
    /\ sorted_once # s_elements
    /\ \E i, j \in 1..Len(sorted_once) :
          /\ i < j
          /\ sorted_once[i].element_type = "text" /\ sorted_once[j].element_type = "image"
          /\ sorted_once[i].bbox[1] = sorted_once[j].bbox[1]
          /\ sorted_once[i].bbox[2] = sorted_once[j].bbox[2]
          /\ sorted_once[i].bbox # sorted_once[j].bbox

----------------------------------------------------------------------------
(* Properties of the global styles *)

\* number of characters of the text blocks with the indices of S
RECURSIVE CharsOfBlocks(_)
CharsOfBlocks(S) ==
    IF S = {} THEN 0
    ELSE LET i == CHOOSE x \in S : TRUE
         IN  Len(text_blocks[i].text) + CharsOfBlocks(S \ {i})

\* the indices of the text blocks whose field f has the value v
BlocksWith(f, v) == { i \in 1..Len(text_blocks) : text_blocks[i][f] = v }

\* v has the largest character total of field f, and is the first seen in
\* input order of the values with that total
IsDefaultOf(f, v) ==
    /\ BlocksWith(f, v) # {}
    /\ \A i \in 1..Len(text_blocks) :
          LET w == text_blocks[i][f]
          IN  /\ CharsOfBlocks(BlocksWith(f, w)) <= CharsOfBlocks(BlocksWith(f, v))
              /\ CharsOfBlocks(BlocksWith(f, w)) = CharsOfBlocks(BlocksWith(f, v)) =>
                    SetMin(BlocksWith(f, v)) <= i

\* usage is a table with one entry per value of field f, holding the
\* character total of that value
IsUsageOf(f, usage) ==
    /\ { usage[k][1] : k \in 1..Len(usage) } = { text_blocks[i][f] : i \in 1..Len(text_blocks) }
    /\ \A k, l \in 1..Len(usage) : usage[k][1] = usage[l][1] => k = l
    /\ \A k \in 1..Len(usage) : usage[k][2] = CharsOfBlocks(BlocksWith(f, usage[k][1]))

\* C12: the global styles weight each font name and each font size by the
\* total number of characters of the text blocks that use it (not by the
\* number of blocks); the default font and default size are the values with
\* the largest total, among equal totals the one first seen in input order;
\* an empty list of text blocks yields an empty record, without a
\* default_font or default_font_size key.
C12_StylesWeightedByCharacters ==
    lpc = "done" =>
       LET gs == document_layout.global_styles
       IN  IF text_blocks = <<>>
           THEN DOMAIN gs = {}
           ELSE /\ DOMAIN gs = {"default_font", "default_font_size", "font_usage", "size_usage"}
                /\ IsUsageOf("font_name", gs.font_usage)
                /\ IsUsageOf("font_size", gs.size_usage)
                /\ IsDefaultOf("font_name", gs.default_font)
                /\ IsDefaultOf("font_size", gs.default_font_size)

\* a layout was returned for two text blocks of different fonts and sizes
\* with equal, non-zero character counts: the first one's font is the default
C12_Witness ==
    /\ lpc = "done"
    /\ Len(text_blocks) = 2
    /\ text_blocks[1].font_name # text_blocks[2].font_name
    /\ text_blocks[1].font_size # text_blocks[2].font_size
    /\ Len(text_blocks[1].text) = Len(text_blocks[2].text)
    /\ Len(text_blocks[1].text) > 0
    /\ document_layout.global_styles.default_font = text_blocks[1].font_name

----------------------------------------------------------------------------
(* Properties of reconstruct_layout that depend on page_count, page_sizes  *)
(* and the page numbers of the items                                       *)

\* C13: when page_sizes has at least page_count entries, the pages are
\* produced in ascending page order, also the pages without content: at any
\* moment the k-th page built has page_num k - 1 and the size
\* page_sizes[k - 1] (0-based), and the returned layout has exactly
\* page_count pages.
C13_OnePagePerIndex ==
    Len(page_sizes) >= page_count =>
       /\ lpc \in {"loop", "done"}
       /\ \A k \in 1..Len(pages) :
             /\ pages[k].page_num = k - 1
             /\ pages[k].page_size = page_sizes[k]
       /\ lpc = "done" =>
             /\ document_layout.pages = pages
             /\ Len(document_layout.pages) = page_count

\* a layout of two pages was returned for a document with three page sizes,
\* the second page without any item
C13_Witness ==
    /\ lpc = "done"
    /\ page_count = 2
    /\ Len(page_sizes) = 3
    /\ Len(document_layout.pages) = 2
    /\ AllGroups(document_layout.pages[2]) = <<>>
    /\ AllGroups(document_layout.pages[1]) # <<>>

\* the items whose page_num is a page of the document
OnPages(items) == SelectSeq(items, LAMBDA it : it.page_num \in 0..(page_count - 1))

\* the input item an element was made from
ItemOf(e) ==
    CASE e.element_type = "text" -> text_blocks[e.content]
      [] e.element_type = "image" -> images[e.content]
      [] e.element_type = "ocr_text" -> ocr_results[e.content]

\* types and boxes of a list of elements, in order
Shape(seq) == [k \in 1..Len(seq) |-> <<seq[k].element_type, seq[k].bbox>>]

\* C14: an item whose page_num is outside [0, page_count) never makes
\* reconstruct_layout fail (it fails only when page_sizes is too short), is
\* the content of no element of any page's headers, footers or elements, and
\* does not influence any page: margins, columns and the elements of the
\* three groups are those of the same input without the items outside the
\* range.
C14_OffPageItemsIgnored ==
    /\ lpc = "raised" => Len(page_sizes) < page_count
    /\ \A k \in 1..Len(pages) :
          LET q == _reconstruct_page_layout(k - 1, OnPages(text_blocks), OnPages(images),
                                            OnPages(ocr_results), page_sizes)
          IN  /\ pages[k].margins = q.margins
              /\ pages[k].columns = q.columns
              /\ Shape(pages[k].headers) = Shape(q.headers)
              /\ Shape(pages[k].elements) = Shape(q.elements)
              /\ Shape(pages[k].footers) = Shape(q.footers)
              /\ \A i \in 1..Len(AllGroups(pages[k])) :
                    ItemOf(AllGroups(pages[k])[i]).page_num \in 0..(page_count - 1)

\* a layout was returned for a text block on page -1 and an item with
\* another box on page 0
C14_Witness ==
    /\ lpc = "done"
    /\ page_count >= 1
    /\ \E i \in 1..Len(text_blocks) :
          /\ text_blocks[i].page_num = -1
          /\ \E e \in Range(AllGroups(document_layout.pages[1])) : e.bbox # text_blocks[i].bbox

\* C16: when page_sizes has fewer entries than page_count, reconstruct_layout
\* fails at the first page index without a size and returns no
\* DocumentLayout, not even one of the pages built before, whatever the
\* inputs (also with no text blocks, images and OCR results at all): no page
\* is built past the sizes, and once no size is left the call can only fail.
C16_ShortPageSizesFail ==
    Len(page_sizes) < page_count =>
       /\ lpc \in {"loop", "raised"}
       /\ document_layout = <<>>
       /\ Len(pages) <= Len(page_sizes)
       /\ lpc = "raised" => Len(pages) = Len(page_sizes)
       /\ (lpc = "loop" /\ Len(pages) = Len(page_sizes)) =>
             /\ ENABLED RaiseIndexError
             /\ ~ENABLED ReconstructPage
             /\ ~ENABLED ReturnLayout

\* the call failed on its second page, after building the first, with no
\* text blocks, images or OCR results
C16_Witness ==
    /\ lpc = "raised"
    /\ page_count = 2
    /\ Len(pages) = 1
    /\ text_blocks = <<>> /\ images = <<>> /\ ocr_results = <<>>
    /\ document_layout = <<>>

\* sum of the values of a table
RECURSIVE SumValues(_)
SumValues(d) == IF d = <<>> THEN 0 ELSE d[1][2] + SumValues(Tail(d))

\* C15: the global styles are computed over every text block, whatever its
\* page: the values of font_usage add up to the number of characters of all
\* the input text blocks, those with a page_num outside the document
\* included.
C15_StylesOverAllTextBlocks ==
    (lpc = "done" /\ text_blocks # <<>>) =>
       /\ "font_usage" \in DOMAIN document_layout.global_styles
       /\ SumValues(document_layout.global_styles.font_usage)
             = CharsOfBlocks(1..Len(text_blocks))

\* a layout was returned for a text block on page -1 and one on page
\* page_count, both with text, and their characters are counted
C15_Witness ==
    /\ lpc = "done"
    /\ \E i, j \in 1..Len(text_blocks) :
          /\ text_blocks[i].page_num = -1 /\ Len(text_blocks[i].text) > 0
          /\ text_blocks[j].page_num = page_count /\ Len(text_blocks[j].text) > 0
    /\ SumValues(document_layout.global_styles.font_usage) > 0

\* the input list an element type is made from
InputsOfType(type) ==
    CASE type = "text" -> text_blocks
      [] type = "image" -> images
      [] type = "ocr_text" -> ocr_results

\* C17: every layout element of page p, in whichever group, is made from
\* exactly one input item whose page_num is p: its content is that item, its
\* bbox the item's bbox, its page_num p; a text block gives type 'text' and
\* z_order 1, an image 'image' and 0, an OCR result 'ocr_text' and 2, so
\* z_order is 0 exactly for images, 1 exactly for text and 2 exactly for OCR
\* text; no two elements are made from the same item.
C17_ElementsMirrorItems ==
    \A k \in 1..Len(pages) :
       LET all == AllGroups(pages[k])
       IN  /\ \A i \in 1..Len(all) :
                 LET el == all[i]
                 IN  /\ el.element_type \in {"text", "image", "ocr_text"}
                     /\ el.content \in 1..Len(InputsOfType(el.element_type))
                     /\ InputsOfType(el.element_type)[el.content].page_num = k - 1
                     /\ el.bbox = InputsOfType(el.element_type)[el.content].bbox
                     /\ el.page_num = k - 1
                     /\ el.z_order = 0 <=> el.element_type = "image"
                     /\ el.z_order = 1 <=> el.element_type = "text"
                     /\ el.z_order = 2 <=> el.element_type = "ocr_text"
           /\ \A i, j \in 1..Len(all) :
                 (all[i].element_type = all[j].element_type
                    /\ all[i].content = all[j].content) => i = j

\* a layout was returned whose second page holds a text element and an OCR
\* element made from items with different boxes
C17_Witness ==
    /\ lpc = "done"
    /\ page_count = 2
    /\ \E a, b \in Range(AllGroups(document_layout.pages[2])) :
          /\ a.element_type = "text" /\ b.element_type = "ocr_text"
          /\ a.bbox # b.bbox

----------------------------------------------------------------------------
(* Properties of a sequence of calls on one engine *)

\* C18: the font-mapping table is built once, when the engine is
\* constructed, and no call of reconstruct_layout, get_reading_order or
\* merge_overlapping_elements changes it: after any sequence of calls the
\* engine holds the table of its construction, and every DocumentLayout
\* returned carries that table as its font_mapping.
C18_FontMappingFixed ==
    /\ font_mapping = _create_font_mapping
    /\ Cardinality(DOMAIN font_mapping) = 17
    /\ lpc = "done" => document_layout.font_mapping = _create_font_mapping

\* a second layout was returned by an engine that had also merged a page's
\* elements and computed a reading order, for a font the table does not hold
C18_Witness ==
    /\ lpc = "done"
    /\ calls >= 4
    /\ mpc = "merged"
    /\ reading_order # <<>>
    /\ text_blocks # <<>>
    /\ text_blocks[1].font_name \notin DOMAIN font_mapping

----------------------------------------------------------------------------
(* Properties of PDFAnalyzer._detect_headers_footers *)

\* the lists in which a block occurs hold it once, and in input order
InInputOrder(list) ==
    \A i, j \in 1..Len(list) : i < j => list[i].text < list[j].text

\* C19: PDFAnalyzer._detect_headers_footers, applied to raw text blocks,
\* uses a 10% zone: a text block is returned as a header if and only if its
\* top edge y0 is below 0.1 * page_height, and as a footer if and only if
\* its bottom edge y1 is above 0.9 * page_height, each list in input order;
\* a block that satisfies neither is in neither list.
C19_TenPercentZones ==
    dpc = "returned" =>
       /\ \A k \in 1..Len(d_text_blocks) :
             LET tb == d_text_blocks[k]
             IN  /\ tb \in Range(d_headers) <=> 10 * tb.bbox[2] < d_page_height
                 /\ tb \in Range(d_footers) <=> 10 * tb.bbox[4] > 9 * d_page_height
       /\ Range(d_headers) \subseteq Range(d_text_blocks)
       /\ Range(d_footers) \subseteq Range(d_text_blocks)
       /\ InInputOrder(d_headers)
       /\ InInputOrder(d_footers)

\* the detector returned for a page 100 high and three blocks: one with its
\* top edge at 10 and bottom edge at 90 (in neither list), then one that is
\* a header and a footer at once, then one that is a header only
C19_Witness ==
    /\ dpc = "returned"
    /\ d_page_height = 100
    /\ Len(d_text_blocks) = 3
    /\ d_text_blocks[1].bbox = <<0, 10, 10, 90>>
    /\ d_headers = << d_text_blocks[2], d_text_blocks[3] >>
    /\ d_footers = << d_text_blocks[2] >>

----------------------------------------------------------------------------
(* Properties of OCRProcessor.process_image *)

\* the positions of the characters of t that are not whitespace
InkOf(t) == { k \in 1..Len(t) : t[k] \notin Whitespace }

\* t without the whitespace before its first and after its last other
\* character
CoreOf(t) == IF InkOf(t) = {} THEN <<>> ELSE SubSeq(t, SetMin(InkOf(t)), SetMax(InkOf(t)))

\* the words that must be accepted
AcceptedWords ==
    { i \in 1..Len(ocr_data.words) :
         /\ InkOf(ocr_data.words[i].text) # {}
         /\ ocr_data.words[i].conf > confidence_threshold }

\* the accepted words from position i on, stripped, one space between two
RECURSIVE SpacedFrom(_)
SpacedFrom(i) ==
    IF i > Len(ocr_data.words) THEN <<>>
    ELSE IF i \notin AcceptedWords THEN SpacedFrom(i + 1)
    ELSE IF \E j \in AcceptedWords : j > i
         THEN CoreOf(ocr_data.words[i].text) \o <<" ">> \o SpacedFrom(i + 1)
         ELSE CoreOf(ocr_data.words[i].text)

\* sum of the confidences of the words with the positions of S
RECURSIVE ConfidenceSum(_)
ConfidenceSum(S) ==
    IF S = {} THEN 0
    ELSE LET i == CHOOSE x \in S : TRUE
         IN  ocr_data.words[i].conf + ConfidenceSum(S \ {i})

\* C20: process_image accepts a recognized word if and only if its stripped
\* text is non-empty and its confidence is strictly greater than
\* confidence_threshold; it returns None when no word is accepted and
\* otherwise an OCRResult whose text is the accepted words in recognition
\* order joined by single spaces, whose confidence is the arithmetic mean of
\* the accepted confidences, and whose bbox, original_image_bbox and
\* page_num are the image block's; a failure during processing yields None,
\* never an exception.
C20_ProcessImage ==
    /\ ocrpc # "raised"
    /\ ocrpc = "returned" =>
          IF ocr_data.failed \/ AcceptedWords = {}
          THEN ocr_result = <<>>
          ELSE /\ Len(ocr_result) = 1
               /\ ocr_result[1].text = SpacedFrom(1)
               /\ ocr_result[1].confidence[2] > 0
               /\ ocr_result[1].confidence[1] * Cardinality(AcceptedWords)
                     = ocr_result[1].confidence[2] * ConfidenceSum(AcceptedWords)
               /\ ocr_result[1].bbox = image_block.bbox
               /\ ocr_result[1].original_image_bbox = image_block.bbox
               /\ ocr_result[1].page_num = image_block.page_num

\* an OCRResult was returned for three words: one between blanks with
\* confidence 31, one with a confidence equal to the threshold 30 (not
\* accepted) and one with confidence 90; the text is "b a", the mean 121/2
C20_Witness ==
    /\ ocrpc = "returned"
    /\ confidence_threshold = 30
    /\ Len(ocr_data.words) = 3
    /\ ocr_data.words[2] = [text |-> <<"a">>, conf |-> 30]
    /\ Len(ocr_result) = 1
    /\ ocr_result[1].text = <<"b", " ", "a">>
    /\ ocr_result[1].confidence = <<121, 2>>
    /\ ocr_result[1].page_num = 1

----------------------------------------------------------------------------
(* Properties of the groups of one page *)

\* a precedes b in the sorted list handed to _separate_headers_footers: by
\* (y0, x0), elements with equal keys in the order they were wrapped in
BeforeInPageList(a, b) ==
    \/ a.bbox[2] < b.bbox[2]
    \/ a.bbox[2] = b.bbox[2] /\ a.bbox[1] < b.bbox[1]
    \/ /\ a.bbox[2] = b.bbox[2] /\ a.bbox[1] = b.bbox[1]
       /\ \/ KindRank(a.element_type) < KindRank(b.element_type)
          \/ a.element_type = b.element_type /\ a.content < b.content

\* the groups of a page
GroupsOf(pl) == {pl.headers, pl.elements, pl.footers}

\* C27: the separation is an order-preserving partition: the list it was
\* given holds exactly the body elements afterwards, headers, footers and
\* body each keep the relative order their elements had in that list, so
\* each of them is ascending by (y0, x0), and every element is still the
\* one that was wrapped (no field changed).
C27_PartitionKeepsOrder ==
    \A k \in 1..Len(pages) :
        LET pl == pages[k]
            h  == pl.page_size[2]
        IN
        /\ \A e \in ExpectedElements(k - 1) :
              (/\ ~(100 * TwiceCentre(e) < 30 * h)
               /\ ~(100 * TwiceCentre(e) > 170 * h))
              <=> e \in Range(pl.elements)
        /\ \A g \in GroupsOf(pl) :
              /\ Range(g) \subseteq ExpectedElements(k - 1)
              /\ \A i, j \in 1..Len(g) :
                    i < j =>
                       /\ BeforeInPageList(g[i], g[j])
                       /\ g[i].bbox[2] <= g[j].bbox[2]
                       /\ g[i].bbox[2] = g[j].bbox[2] => g[i].bbox[1] <= g[j].bbox[1]

\* a returned layout whose first page has two headers that the sort had to
\* order
C27_Witness ==
    /\ lpc = "done"
    /\ Len(pages) >= 1
    /\ Len(pages[1].headers) = 2
    /\ pages[1].headers[1].bbox[2] < pages[1].headers[2].bbox[2]
    /\ pages[1].elements = <<>>

\* C28: the margins of a page are calculated before its headers and
\* footers are separated from the body, so they are derived from all
\* elements of the page: top = max(0, least y0 over headers, footers and
\* elements together), and likewise bottom, left and right.
C28_MarginsFromAllGroups ==
    \A k \in 1..Len(pages) :
        LET pl == pages[k]
            G  == Range(pl.headers) \cup Range(pl.footers) \cup Range(pl.elements)
        IN  G # {} =>
               /\ pl.margins.top = Max2(0, SetMin({e.bbox[2] : e \in G}))
               /\ pl.margins.bottom
                     = Max2(0, pl.page_size[2] - SetMax({e.bbox[4] : e \in G}))
               /\ pl.margins.left = Max2(0, SetMin({e.bbox[1] : e \in G}))
               /\ pl.margins.right
                     = Max2(0, pl.page_size[1] - SetMax({e.bbox[3] : e \in G}))

\* a page whose bottom margin is set by a footer that reaches below every
\* body element of the page; the body alone would give another margin
C28_Witness ==
    \E k \in 1..Len(pages) :
        /\ pages[k].elements # <<>>
        /\ \E e \in Range(pages[k].footers) :
              /\ pages[k].margins.bottom = Max2(0, pages[k].page_size[2] - e.bbox[4])
              /\ \A b \in Range(pages[k].elements) :
                    /\ b.bbox[4] < e.bbox[4]
                    /\ Max2(0, pages[k].page_size[2] - b.bbox[4]) # pages[k].margins.bottom

\* C29: an image element and the ocr_text element of an OCR result with the
\* image's bbox and page_num are in the same group of the same page, the
\* image element before the ocr_text element.
C29_ImageBeforeItsOcrText ==
    \A k \in 1..Len(pages) :
      \A i \in 1..Len(images) : \A j \in 1..Len(ocr_results) :
        (/\ images[i].page_num = k - 1
         /\ ocr_results[j].page_num = images[i].page_num
         /\ ocr_results[j].bbox = images[i].bbox)
        => \E g \in GroupsOf(pages[k]) : \E p, q \in 1..Len(g) :
              /\ p < q
              /\ g[p].element_type = "image" /\ g[p].content = i
              /\ g[q].element_type = "ocr_text" /\ g[q].content = j
              /\ g[p].bbox = g[q].bbox

\* a returned layout with an image and an OCR result of the same box on
\* one page, in the footers
C29_Witness ==
    /\ lpc = "done"
    /\ \E k \in 1..Len(pages) :
         /\ Len(pages[k].footers) = 2
         /\ pages[k].footers[1].element_type = "image"
         /\ pages[k].footers[2].element_type = "ocr_text"
         /\ pages[k].footers[1].bbox = pages[k].footers[2].bbox

----------------------------------------------------------------------------
(* Properties of get_reading_order *)

\* twice the centre of an element, (y, x)
TwiceCentreY(e) == e.bbox[2] + e.bbox[4]
TwiceCentreX(e) == e.bbox[1] + e.bbox[3]

\* C26: the list returned holds exactly the page's body elements, each as
\* often as the page does and none of its headers or footers, ascending by
\* (y_center, x_center), elements with equal centres in the order the page
\* stores them; and the call leaves the page's elements, headers and
\* footers as they were.
C26_ReadingOrderIsSortedCopy ==
    /\ [](rpc = "returned" =>
            /\ Len(ordered) = Len(r_page_layout.elements)
            /\ \A e \in Range(ordered) \cup Range(r_page_layout.elements) :
                  Occurrences(ordered, e) = Occurrences(r_page_layout.elements, e)
            /\ \A e \in Range(r_page_layout.headers) \cup Range(r_page_layout.footers) :
                  e \notin Range(ordered)
            /\ \A i, j \in 1..Len(ordered) :
                  i < j =>
                     LET a == ordered[i]
                         b == ordered[j]
                     IN  /\ TwiceCentreY(a) <= TwiceCentreY(b)
                         /\ TwiceCentreY(a) = TwiceCentreY(b) =>
                               TwiceCentreX(a) <= TwiceCentreX(b)
                         /\ (/\ TwiceCentreY(a) = TwiceCentreY(b)
                             /\ TwiceCentreX(a) = TwiceCentreX(b))
                               => a.content < b.content)
    /\ [][r_page_layout' = r_page_layout]_vars

\* the call returned for a page with a header, where it had to reorder the
\* stored list, kept two elements of equal centre and different boxes in
\* stored order, and put an element with the lower top edge after one with
\* the higher centre
C26_Witness ==
    /\ rpc = "returned"
    /\ r_page_layout.headers # <<>>
    /\ ordered # r_page_layout.elements
    /\ \E i, j \in 1..Len(ordered) :
          /\ i < j
          /\ ordered[i].bbox # ordered[j].bbox
          /\ TwiceCentreY(ordered[i]) = TwiceCentreY(ordered[j])
          /\ TwiceCentreX(ordered[i]) = TwiceCentreX(ordered[j])
    /\ \E i, j \in 1..Len(ordered) :
          /\ i < j
          /\ ordered[i].bbox[2] > ordered[j].bbox[2]

----------------------------------------------------------------------------
(* Properties of batch_process_images *)

\* the processing of image block i yields an OCRResult: it does not fail
\* and finds a word that is not blank, with a confidence above 30
Yields(i) ==
    /\ ~image_blocks[i].data.failed
    /\ \E k \in 1..Len(image_blocks[i].data.words) :
          LET w == image_blocks[i].data.words[k]
          IN  /\ \E c \in 1..Len(w.text) : w.text[c] \notin {" ", "\t"}
              /\ w.conf > 30

\* the processed image blocks that yielded a result
Yielding == {i \in 1..Len(processed) : Yields(i)}

\* the k-th of them
KthYielding(k) == CHOOSE i \in Yielding : Cardinality({j \in Yielding : j <= i}) = k

\* C21: process_image is called once per image block, in input order; the
\* list built holds exactly the results that are not None, in the order of
\* their image blocks; it is never longer than the input; an image block
\* without a result adds nothing and the blocks after it are still
\* processed.
C21_BatchKeepsResultsInOrder ==
    /\ \A k \in 1..Len(processed) : processed[k] = k
    /\ bpc = "returned" => Len(processed) = Len(image_blocks)
    /\ Len(results) <= Len(image_blocks)
    /\ Len(results) = Cardinality(Yielding)
    /\ \A k \in 1..Len(results) :
          k <= Cardinality(Yielding) =>
             LET ib == image_blocks[KthYielding(k)]
             IN  results[k] = [text |-> <<"a">>, confidence |-> <<90, 1>>,
                               bbox |-> ib.bbox, page_num |-> ib.page_num,
                               original_image_bbox |-> ib.bbox]

\* the call returned for three image blocks: the first and the third with
\* a result, the second failing
C21_Witness ==
    /\ bpc = "returned"
    /\ Len(image_blocks) = 3
    /\ image_blocks[2].data.failed
    /\ Len(results) = 2
    /\ results[1].bbox = image_blocks[1].bbox
    /\ results[2].bbox = image_blocks[3].bbox

----------------------------------------------------------------------------
(* Properties of convert_pdf_to_docx and main *)

\* C22: convert_pdf_to_docx returns True exactly when the conversion was
\* successful: for a file whose create_document returned False it returns
\* False, and main counts the file as failed, not as successful.
C22_FailedBuildIsFailedFile ==
    /\ \A k \in 1..Len(returned) :
          /\ returned[k] <=> valid_files[k] = "create_document returns True"
          /\ valid_files[k] = "create_document returns False" =>
                /\ ~returned[k]
                /\ k \in Range(failed_files)
    /\ successful
          = Cardinality({k \in 1..Len(returned) :
                            valid_files[k] = "create_document returns True"})
    /\ failed = Len(returned) - successful

----------------------------------------------------------------------------
(* Properties of create_document *)

\* where a call stands within the processing of its page
CallRank(c) ==
    CASE c.call \in {"header.clear", "header.add_run"} -> 1
      [] c.call = "add_paragraph" -> 2
      [] c.call \in {"footer.clear", "footer.add_run"} -> 3
      [] c.call = "add_page_break" -> 4
      [] OTHER -> 5

\* the calls of kind `kinds` made while page p was processed
CallsFor(p, kinds) ==
    SelectSeq(api_calls, LAMBDA c : c.page = p /\ c.call \in kinds)

\* the index of the k-th text element of a group
KthText(group, k) ==
    CHOOSE i \in 1..Len(group) :
        /\ group[i].element_type = "text"
        /\ Cardinality({j \in 1..i : group[j].element_type = "text"}) = k

\* the runs a header or footer paragraph holds when it was last written for
\* the group: one per text element, its text and a blank
TextRunsOf(group) ==
    [k \in 1..Cardinality({j \in 1..Len(group) : group[j].element_type = "text"}) |->
        group[KthText(group, k)].content.text \o <<" ">>]

\* the processed pages with a header group, and those with a footer group
WithHeaders == {p \in 1..page_idx : layout_data[p].headers # <<>>}
WithFooters == {p \in 1..page_idx : layout_data[p].footers # <<>>}

\* C30: the pages are emitted in page order, each with its headers first,
\* then its body elements (each once), then its footers, and a page break
\* after every page but the last; a header or footer run is added for text
\* elements only; the header (footer) paragraph is cleared whenever a page
\* with headers (footers) is processed, so it holds the text elements of the
\* last such page only.
C30_PagesEmittedInOrder ==
    /\ \A i, j \in 1..Len(api_calls) :
          (i < j /\ api_calls[j].call # "save") =>
             /\ api_calls[i].page <= api_calls[j].page
             /\ api_calls[i].page = api_calls[j].page =>
                   CallRank(api_calls[i]) <= CallRank(api_calls[j])
    /\ \A p \in 1..page_idx :
          LET pl == layout_data[p]
              paragraphs == CallsFor(p, {"add_paragraph"})
              header_added == CallsFor(p, {"header.add_run"})
              footer_added == CallsFor(p, {"footer.add_run"})
          IN  /\ Len(paragraphs) = Len(pl.elements)
              /\ {paragraphs[k].element : k \in 1..Len(paragraphs)} = 1..Len(pl.elements)
              /\ Len(CallsFor(p, {"header.clear"})) = IF pl.headers = <<>> THEN 0 ELSE 1
              /\ Len(CallsFor(p, {"footer.clear"})) = IF pl.footers = <<>> THEN 0 ELSE 1
              /\ [k \in 1..Len(header_added) |-> header_added[k].runs[1]]
                    = TextRunsOf(pl.headers)
              /\ [k \in 1..Len(footer_added) |-> footer_added[k].runs[1]]
                    = TextRunsOf(pl.footers)
              /\ Len(CallsFor(p, {"add_page_break"}))
                    = IF p < Len(layout_data) THEN 1 ELSE 0
    /\ header_runs = IF WithHeaders = {} THEN <<>>
                     ELSE TextRunsOf(layout_data[SetMax(WithHeaders)].headers)
    /\ footer_runs = IF WithFooters = {} THEN <<>>
                     ELSE TextRunsOf(layout_data[SetMax(WithFooters)].footers)

\* the document was saved for two pages: the first with a text header and a
\* body, the second with an image and a text header; the header paragraph
\* holds one run, the text of the second page's text header, and the body
\* one page break
C30_Witness ==
    /\ xpc = "returned"
    /\ created = <<TRUE>>
    /\ Len(layout_data) = 2
    /\ Len(layout_data[1].headers) = 1
    /\ layout_data[1].headers[1].element_type = "text"
    /\ layout_data[1].elements # <<>>
    /\ Len(layout_data[2].headers) = 2
    /\ layout_data[2].headers[1].element_type = "image"
    /\ layout_data[2].headers[2].element_type = "text"
    /\ header_runs = <<layout_data[2].headers[2].content.text \o <<" ">> >>
    /\ Cardinality({k \in 1..Len(body) : body[k] = << <<"<page break>">> >>}) = 1

====
